---- MODULE Spec2Model ----
(***************************************************************************)
(* Model of the escape room servers.  IR server                            *)
(* (src/IR Server/data/ir_server.py): the burst normalizer, the frame      *)
(* extractor, the carrier pulse builder, the hold scheduler, the sender,   *)
(* the learner and the repeated-frame sender.  Video server                *)
(* (src/Video Server/data/video_server.py): the OSD timer and its loops,   *)
(* interrupts, the mpv IPC socket, overlays and OSD messages.  Hue server  *)
(* (src/Hue Server/data/hue_server.py): the name mapping.  Durations are   *)
(* integers in microseconds.                                               *)
(***************************************************************************)
EXTENDS Integers, Sequences, FiniteSets, TLC

VARIABLES
    n_in,      \* normalize_burst_us: the argument seq
    n_out,     \* normalize_burst_us: its outcome on n_in
    n_out2,    \* normalize_burst_us: its outcome on the Burst in n_out
    f_in,      \* extract_first_frame_us: the argument durations_us
    f_gap,     \* extract_first_frame_us: the argument gap_us
    f_out,     \* extract_first_frame_us: its outcome
    p_burst,   \* build_pulses_for_burst: the argument durations_us
    p_carrier, \* build_pulses_for_burst: the argument carrier_khz
    p_duty,    \* build_pulses_for_burst: the argument duty_pct
    p_conn,    \* whether get_pi() finds pigpiod connected
    p_out,     \* build_pulses_for_burst: its outcome (the pulse list)
    p_segs,    \* per burst entry handled: the positions of its pulses in the list
    hold_threads, \* _hold_threads: hold id -> its worker thread
    hold_stop,    \* _hold_stop: hold id -> stop flag
    workers,      \* the hold worker threads, one record per thread slot
    clients,      \* the request threads calling hold_start_from_burst / hold_stop / hold_stop_all
    last_done,    \* the call that returned last, with its outcome
    calls,        \* how many calls the request threads have made so far
    senders,      \* the threads inside send_raw_burst, one record per thread
    PI,           \* _PI: the shared pigpio handle, "none" when it was dropped
    fails,        \* how many transmitter calls have failed so far
    learn_active,     \* _learn_active
    learn_edges,      \* _learn_edges: the microseconds between captured edges
    learn_cb,         \* _learn_cb: whether the edge callback is registered
    learn_start_tick, \* _learn_start_tick: the tick of the edge seen last, 0 before any
    rx_tick,          \* the tick of the receiver pin's latest level change
    db,               \* the code database file: (remote, key) -> stored burst
    learn_res,        \* the outcome of learn_stop_and_save, Pending while a session runs
    t_now,        \* time.monotonic(), in units of 1/TimeRes second
    t_end,        \* _osd_timer_end, in the same units
    t_paused,     \* _osd_timer_paused (the Event is set)
    t_pause_left, \* _osd_timer_pause_left, in seconds
    t_thread,     \* _osd_timer_thread: "none", "alive" or "dead"
    t_shown,      \* the seconds the overlay shows, -1 when it is blank
    t_op,         \* the OSD timer operation that ran last
    hue_bridge,   \* the Hue config has bridge_ip and username
    hue_map,      \* cfg["map"] of the Hue config file: name -> light id
    hue_res,      \* the Hue server's response to the last request
    rf,           \* the call of send_repeated_frame: its arguments and position
    tx,           \* the bursts that call has handed to send_raw_burst, in order
    main_path,               \* VideoController.main_path
    interrupt_active,        \* VideoController.interrupt_active
    interrupt_mode,          \* VideoController.interrupt_mode
    saved_pos,               \* VideoController.saved_pos
    interrupt_start,         \* VideoController.interrupt_start
    loop_for_next_file,      \* VideoController._loop_for_next_file
    pending_interrupt_path,  \* VideoController._pending_interrupt_path
    m_file,       \* mpv: the file it plays, NoPath when idle
    m_pos,        \* mpv: time-pos
    m_loop,       \* mpv: loop-file
    m_events,     \* mpv: events sent and not yet handled by _on_mpv_event
    v_now,        \* time.monotonic() of the video server
    resuming,     \* calls of _on_mpv_event that wait in _play_file at line 646
    v_last,       \* the step of the video controller that ran last
    ipc_sock,     \* MPVIPC._sock: the messages mpv has written and nobody has received
    ipc_req,      \* the call of MPVIPC.request: its position, request id and result
    ipc_issued,   \* how many calls of request have been made
    ipc_owed,     \* the request ids mpv has still to reply to
    ipc_replied,  \* the request ids mpv has replied to
    ipc_lost,     \* the request ids whose reply _reader_loop received
    osd_level,    \* mpv's osd-level property
    toast_timer,  \* _toast_timer: the Timer that blanks the overlay_text overlay
    msg_timer,    \* _msg_remove_timer: the Timer that removes the OSD message
    toast_shown,  \* the overlay_text overlay (id 702) shows a text
    msg_shown,    \* the message overlay (id 701) shows a text
    o_now,        \* the time, in units of a timer's duration
    osd_before,   \* osd-level before the first call since no Timer was scheduled
    lp_pc,        \* where each _osd_timer_loop thread is ("none": not started)
    lp_left,      \* each loop's local left
    lp_last,      \* each loop's local last_ass, as the seconds it shows (-2: None)
    lp_wake,      \* when each loop's _osd_timer_stop.wait(TICK_S) times out
    lp_started,   \* the number of loop threads started so far
    lp_thread,    \* _osd_timer_thread: a loop's number, 0 for None
    lp_stop,      \* _osd_timer_stop is set
    lp_end,       \* _osd_timer_end
    lp_now,       \* time.monotonic(), in seconds
    lp_call,      \* the start_osd_timer or stop_osd_timer call in progress
    lp_overlay,   \* what overlay 700 shows: seconds, -1 when blank
    lp_prev_level,\* _osd_prev_level, -1 for None
    lp_retired,   \* the loops started before the last call that returned
    lp_drawer     \* the loop that drew a countdown value in the last step, else 0

norm_vars == <<n_in, n_out, n_out2>>
frame_vars == <<f_in, f_gap, f_out>>
pulse_vars == <<p_burst, p_carrier, p_duty, p_conn, p_out, p_segs>>

hold_vars == <<hold_threads, hold_stop, workers, clients, last_done, calls>>

send_vars == <<senders, PI, fails>>

learn_vars == <<learn_active, learn_edges, learn_cb, learn_start_tick, rx_tick, db,
                learn_res>>

\* the state of the components that follow the hold scheduler in this module
timer_vars == <<t_now, t_end, t_paused, t_pause_left, t_thread, t_shown, t_op>>

hue_vars == <<hue_bridge, hue_map, hue_res>>

repeat_vars == <<rf, tx>>

ctl_vars ==
    <<main_path, interrupt_active, interrupt_mode, saved_pos, interrupt_start,
      loop_for_next_file, pending_interrupt_path>>

mpv_vars == <<m_file, m_pos, m_loop, m_events>>

intr_vars == <<ctl_vars, mpv_vars, v_now, resuming, v_last>>

ipc_vars == <<ipc_sock, ipc_req, ipc_issued, ipc_owed, ipc_replied, ipc_lost>>

osd_rest == <<toast_timer, msg_timer, toast_shown, msg_shown, o_now, osd_before>>

osd_vars == <<osd_level, osd_rest>>

loops_vars ==
    <<lp_pc, lp_left, lp_last, lp_wake, lp_started, lp_thread, lp_stop, lp_end, lp_now,
      lp_call, lp_overlay, lp_prev_level, lp_retired, lp_drawer>>

tail_vars == <<repeat_vars, intr_vars, ipc_vars, osd_vars, loops_vars>>

later_vars == <<send_vars, learn_vars, timer_vars, hue_vars, tail_vars>>

vars == <<norm_vars, frame_vars, pulse_vars, hold_vars, later_vars>>

\* ---------------------------------------------------------------- bounds
MaxLen == 4        \* longest raw sequence handed to normalize_burst_us
MaxVal == 2        \* raw entries range over -MaxVal..MaxVal
MaxPairs == 3      \* most mark/space pairs of a Burst given to the frame extractor
MaxMag == 2        \* magnitudes of those Bursts range over 1..MaxMag
MaxMark == 10      \* marks given to the pulse builder range over 1..MaxMark
MaxSpace == 2      \* spaces given to the pulse builder range over 1..MaxSpace
NumClients == 2    \* request threads that call the hold scheduler concurrently
MaxCalls == 3      \* calls the request threads make in one run
MaxChunks == 2     \* most chunks a pulse list given to send_raw_burst splits into
MaxFails == 2      \* transmitter calls that fail in one run
MaxEdges == 3      \* most entries of _learn_edges in one learn session
MaxDelta == 2      \* ticks between two level changes range over 0..MaxDelta
MaxTick == 8       \* the receiver's tick counter stays within 0..MaxTick
TimeRes == 2       \* time units per second of the OSD timer's clock
MaxTime == 12      \* the clock runs over 0..MaxTime units
MaxSecs == 3       \* an OSD timer is started with 0..MaxSecs seconds
MaxNameLen == 3    \* a Hue name has 1..MaxNameLen characters
MaxMapped == 1     \* the Hue config holds at most MaxMapped mappings
MaxRepeat == 3     \* send_repeated_frame is called with repeat up to MaxRepeat
MaxClock == 3      \* the video server's clock runs over 0..MaxClock
MaxEvents == 3     \* mpv events waiting to be handled
MaxNest == 1       \* end-file handlers that wait in _play_file at the same time
MaxPos == 4        \* the main video is resumed at positions up to MaxPos
MaxReqs == 2       \* calls of MPVIPC.request in one run
MaxSock == 3       \* messages waiting in the IPC socket
MaxOsdClock == 3   \* the overlay clock runs over 0..MaxOsdClock
MaxDur == 2        \* overlays and messages are shown for 1..MaxDur units
MaxLoops == 2      \* most _osd_timer_loop threads started
MaxLoopTime == 2   \* the loops' clock runs over 0..MaxLoopTime
MaxLoopSecs == 2   \* start_osd_timer is called with 1..MaxLoopSecs seconds

RawVals == (-MaxVal)..MaxVal

RECURSIVE SeqsUpTo(_, _)
SeqsUpTo(S, n) ==
    IF n = 0 THEN {<<>>}
    ELSE LET shorter == SeqsUpTo(S, n - 1)
         IN  shorter \cup {Append(s, x) : s \in {t \in shorter : Len(t) = n - 1}, x \in S}

RawSeqs == SeqsUpTo(RawVals, MaxLen)

\* ------------------------------------------------- outcomes of a call
Pending == [err |-> "pending", out |-> <<>>]
Returned(out) == [err |-> "none", out |-> out]
Raised(msg) == [err |-> msg, out |-> <<>>]

Abs(v) == IF v < 0 THEN -v ELSE v

\* ------------------------------------------------- normalize_burst_us
\* lines 107-114: keep the non-zero entries, in order
DropZeros(s) == SelectSeq(s, LAMBDA x : x # 0)

\* variant: the parities swapped
ResignFlipped(arr) ==
    [i \in 1..Len(arr) |-> IF (i - 1) % 2 = 0 THEN -Abs(arr[i]) ELSE Abs(arr[i])]

\* variant: abs() forgotten
ResignKeepSign(arr) ==
    [i \in 1..Len(arr) |-> IF (i - 1) % 2 = 0 THEN arr[i] ELSE -arr[i]]

\* lines 119-122: magnitude kept, sign by 0-based index parity
ResignByIndex(arr) ==
    [i \in 1..Len(arr) |-> IF (i - 1) % 2 = 0 THEN Abs(arr[i]) ELSE -Abs(arr[i])]

\* variant: out[1:] in place of out[:-1]
DropLeadingIfOdd(out) ==
    IF Len(out) % 2 = 1 THEN SubSeq(out, 2, Len(out)) ELSE out

\* lines 124-125: out = out[:-1] when the length is odd
DropTrailingIfOdd(out) ==
    IF Len(out) % 2 = 1 THEN SubSeq(out, 1, Len(out) - 1) ELSE out

\* variant: the test of lines 126-127 left out
normalize_burst_us_unchecked(s) ==
    LET arr == DropZeros(s)
    IN  IF arr = <<>> THEN Raised("empty IR burst")
        ELSE Returned(DropTrailingIfOdd(ResignByIndex(arr)))

normalize_burst_us(s) ==
    LET arr == DropZeros(s)
    IN  IF arr = <<>> THEN Raised("empty IR burst")
        ELSE LET out == DropTrailingIfOdd(ResignByIndex(arr))
             IN  IF out = <<>>
                 THEN Raised("invalid IR burst after normalization")
                 ELSE Returned(out)

\* ------------------------------------------------- hold scheduler: data
HoldIds == {"H1", "H2"}
Clients == 1..NumClients
\* every worker thread comes from one start call
Slots == 1..MaxCalls

\* the (burst_us, carrier, interval_ms) arguments of a start: successive
\* calls alternate between two bursts, so that a second start of an id
\* never carries the arguments of the first
HoldArgs ==
    <<[burst_us |-> <<9, -4>>, carrier |-> 38, interval_ms |-> 110],
      [burst_us |-> <<3, 0, 2, 5>>, carrier |-> 40, interval_ms |-> 50]>>

ArgsOfCall(n) == HoldArgs[(n % 2) + 1]

NoArgs == [burst_us |-> <<>>, carrier |-> 0, interval_ms |-> 0]
NoCall == [op |-> "none", id |-> "none", res |-> "none"]

\* sig records which of hold_stop / hold_stop_all have set the stop flag of
\* the record's id since the start call that made it cleared the flag (line 319)
FreeSlot == [pc |-> "free", id |-> "none", args |-> NoArgs, norm |-> <<>>, sig |-> {}]
IdleClient ==
    [pc |-> "idle", op |-> "none", id |-> "none", args |-> NoArgs,
     todo |-> {}, w |-> 0, after_stop |-> FALSE, sig |-> {}]

EmptyDict == [k \in {} |-> FALSE]
DictSet(d, k, v) == [x \in DOMAIN d \cup {k} |-> IF x = k THEN v ELSE d[x]]
DictPop(d, k) == [x \in DOMAIN d \ {k} |-> d[x]]
DictGet(d, k, default) == IF k \in DOMAIN d THEN d[k] ELSE default

\* lines 303-304
HoldIdle ==
    /\ hold_threads = EmptyDict
    /\ hold_stop = EmptyDict
    /\ workers = [w \in Slots |-> FreeSlot]
    /\ clients = [c \in Clients |-> IdleClient]
    /\ last_done = NoCall
    /\ calls = 0

\* ------------------------------------------------- send_raw_burst: data
\* line 201
MAX_PULSES == 9000

\* the two kinds of thread that call send_raw_burst: a hold worker (line 310)
\* and a request thread of /cogs/ir/send (line 387)
Senders == {"hold_worker", "cogs_send"}

\* wave ids that wave_create returns
Wids == {0, 1}

\* one transmitter call: its name and whether it returned
NoneCalled == [call |-> "none", ok |-> TRUE]

\* a sender outside send_raw_burst.  last is the transmitter call made last
\* for the chunk at hand, chunks the chunks handed to wave_add_generic so far
IdleSender ==
    [pc |-> "idle", total |-> 0, idx |-> 0, chunk |-> <<1, 0>>, try |-> 0,
     wid |-> -1, exc |-> FALSE, res |-> "none", last |-> NoneCalled, chunks |-> <<>>]

SendIdle ==
    /\ senders = [s \in Senders |-> IdleSender]
    /\ PI = "none"
    /\ fails = 0

\* ------------------------------------------------- learn: data
Remotes == {"tv"}
Keys == {"power", "mute"}
CodeNames == Remotes \X Keys

\* lines 239-243, with an empty database
LearnIdle ==
    /\ learn_active = FALSE
    /\ learn_edges = <<>>
    /\ learn_cb = FALSE
    /\ learn_start_tick = 0
    /\ rx_tick = 0
    /\ db = [n \in {} |-> <<>>]
    /\ learn_res = Raised("none yet")

\* ------------------------------------------------- OSD timer: data
\* VideoController.__init__, lines 193-195, and _ensure_osd_timer_state
TimerIdle ==
    /\ t_now = 0
    /\ t_end = 0
    /\ t_paused = FALSE
    /\ t_pause_left = 0
    /\ t_thread = "none"
    /\ t_shown = -1
    /\ t_op = "none"

\* ------------------------------------------------- Hue server: data
\* a name is a sequence of characters; "a" stands for any character that is
\* neither an underscore nor white space
Chars == {"a", "_", " "}

LightIds == {"1", "2"}

NoResponse == [op |-> "none", name |-> <<>>, lid |-> "none"]

\* load_cfg, lines 32-33: no config file yet
HueIdle ==
    /\ hue_bridge = FALSE
    /\ hue_map = <<>>
    /\ hue_res = NoResponse

\* ------------------------------------------------- send_repeated_frame: data
NoRepeat ==
    [pc |-> "idle", durations_us |-> <<>>, repeat |-> 0, gap_us |-> 0, frame |-> <<>>, i |-> 0]

RepeatIdle == rf = NoRepeat /\ tx = <<>>

\* ------------------------------------------------- video controller: data
\* an absolute path: its directory and its os.path.basename
NoPath == [dir |-> "", base |-> ""]
MainPath == [dir |-> "/v", base |-> "main.mp4"]
ClipPaths == {[dir |-> "/v", base |-> "clip.mp4"]}

NoStep == [op |-> "none", of |-> NoPath, resumed |-> FALSE, raised |-> FALSE]

\* VideoController.__init__, lines 183-192, with no main video given, and
\* mpv as _start_mpv starts it: idle, --loop-file=no
IntrIdle ==
    /\ main_path = NoPath
    /\ interrupt_active = FALSE
    /\ interrupt_mode = "none"
    /\ saved_pos = 0
    /\ interrupt_start = 0
    /\ loop_for_next_file = TRUE
    /\ pending_interrupt_path = NoPath
    /\ m_file = NoPath
    /\ m_pos = 0
    /\ m_loop = "no"
    /\ m_events = <<>>
    /\ v_now = 0
    /\ resuming = 0
    /\ v_last = NoStep

\* ------------------------------------------------- mpv IPC: data
NoRequest == [pc |-> "idle", id |-> 0, res |-> "none"]

\* MPVIPC after connect(), lines 64-77: the socket open, the reader loop started
IpcIdle ==
    /\ ipc_sock = <<>>
    /\ ipc_req = NoRequest
    /\ ipc_issued = 0
    /\ ipc_owed = {}
    /\ ipc_replied = {}
    /\ ipc_lost = {}

\* ------------------------------------------------- overlays: data
\* no Timer object yet (lines 201, 765)
NoTimer == [state |-> "none", prev_level |-> -1, due |-> 0]

\* mpv as _start_mpv starts it (--osd-level=0, line 319), nothing shown
OsdIdle ==
    /\ osd_level = 0
    /\ toast_timer = NoTimer
    /\ msg_timer = NoTimer
    /\ toast_shown = FALSE
    /\ msg_shown = FALSE
    /\ o_now = 0
    /\ osd_before = 0

\* ------------------------------------------------- timer loops: data
\* neither start_osd_timer nor stop_osd_timer is running
NoTimerCall == [pc |-> "idle", seconds |-> 0]

\* the fields as __init__ leaves them (lines 193-195), no loop started
LoopsIdle ==
    /\ lp_pc = [i \in 1..MaxLoops |-> "none"]
    /\ lp_left = [i \in 1..MaxLoops |-> 0]
    /\ lp_last = [i \in 1..MaxLoops |-> -2]
    /\ lp_wake = [i \in 1..MaxLoops |-> 0]
    /\ lp_started = 0
    /\ lp_thread = 0
    /\ lp_stop = FALSE
    /\ lp_end = 0
    /\ lp_now = 0
    /\ lp_call = NoTimerCall
    /\ lp_overlay = -1
    /\ lp_prev_level = -1
    /\ lp_retired = {}
    /\ lp_drawer = 0

TailIdle == RepeatIdle /\ IntrIdle /\ IpcIdle /\ OsdIdle /\ LoopsIdle

LaterIdle == SendIdle /\ LearnIdle /\ TimerIdle /\ HueIdle /\ TailIdle

\* ------------------------------------------------- specification: normalizer
NormIdle == n_in = <<>> /\ n_out = Pending /\ n_out2 = Pending

FrameIdle == f_in = <<>> /\ f_gap = 0 /\ f_out = Pending

PulseIdle ==
    /\ p_burst = <<>>
    /\ p_carrier = 38
    /\ p_duty = 33
    /\ p_conn = TRUE
    /\ p_out = Pending
    /\ p_segs = <<>>

NormInit ==
    /\ n_in \in RawSeqs /\ n_out = Pending /\ n_out2 = Pending
    /\ FrameIdle /\ PulseIdle /\ HoldIdle /\ LaterIdle

\* a call normalize_burst_us(n_in)
Normalize ==
    /\ n_out = Pending
    /\ n_out' = normalize_burst_us(n_in)
    /\ UNCHANGED <<n_in, n_out2, frame_vars, pulse_vars, hold_vars, later_vars>>

\* a second call, on the Burst the first call returned
NormalizeAgain ==
    /\ n_out.err = "none"
    /\ n_out2 = Pending
    /\ n_out2' = normalize_burst_us(n_out.out)
    /\ UNCHANGED <<n_in, n_out, frame_vars, pulse_vars, hold_vars, later_vars>>

NormNext == Normalize \/ NormalizeAgain

SpecNorm == NormInit /\ [][NormNext]_vars

\* ------------------------------------------------- properties: normalizer
\* what the properties measure on the raw input, written without the
\* normalizer's own steps
NonZeroIdx(s) == {i \in 1..Len(s) : s[i] # 0}

NonZeroCount(s) == Cardinality(NonZeroIdx(s))

\* the k-th smallest element of a set of indices
RECURSIVE KthIdx(_, _)
KthIdx(S, k) ==
    LET m == CHOOSE x \in S : \A y \in S : x <= y
    IN  IF k = 1 THEN m ELSE KthIdx(S \ {m}, k - 1)

\* the absolute values of the non-zero entries of s, in their order
NonZeroMagnitudes(s) ==
    [k \in 1..NonZeroCount(s) |-> Abs(s[KthIdx(NonZeroIdx(s), k)])]

Magnitudes(b) == [i \in 1..Len(b) |-> Abs(b[i])]

\* even length, no zero, even 0-based index positive, odd 0-based index negative
IsBurst(b) ==
    /\ Len(b) % 2 = 0
    /\ \A i \in 1..Len(b) :
          /\ b[i] # 0
          /\ ((i - 1) % 2 = 0 => b[i] > 0)
          /\ ((i - 1) % 2 = 1 => b[i] < 0)

\* C1 as stated: every non-empty integer sequence given to normalize_burst_us
\* yields a Burst of even length, free of zeros and position-signed.
C1_EveryNonEmptyInputYieldsBurst ==
    (n_out # Pending /\ Len(n_in) > 0) => (n_out.err = "none" /\ IsBurst(n_out.out))

\* C1 as amended: every integer sequence with at least two non-zero entries
\* yields a Burst of even length, free of zeros and position-signed.
C1_TwoNonZeroYieldBurst ==
    (n_out # Pending /\ NonZeroCount(n_in) >= 2) =>
        (n_out.err = "none" /\ IsBurst(n_out.out))

\* a returned Burst whose input held a zero and a negative entry at an even index
C1_Witness ==
    /\ n_out.err = "none"
    /\ \E i \in 1..Len(n_in) : n_in[i] = 0
    /\ n_in[1] < 0

\* C2: the magnitudes of a returned Burst are the absolute values of the
\* input's non-zero entries in their order, less the last one when their
\* number is odd.
C2_MagnitudesPreserved ==
    n_out.err = "none" =>
        LET m == NonZeroMagnitudes(n_in)
            kept == IF Len(m) % 2 = 1 THEN SubSeq(m, 1, Len(m) - 1) ELSE m
        IN  Magnitudes(n_out.out) = kept

\* a returned Burst from three non-zero entries of distinct magnitudes where
\* the input also held a zero and signs that the index parity overrides
C2_Witness ==
    /\ n_out.err = "none"
    /\ NonZeroCount(n_in) = 3
    /\ Len(n_in) = 4
    /\ n_in[1] < 0
    /\ Abs(n_in[1]) # Abs(n_in[Len(n_in)])

\* C3: normalizing the Burst a successful call returned succeeds and returns
\* that same Burst.
C3_Idempotent ==
    (n_out.err = "none" /\ n_out2 # Pending) =>
        (n_out2.err = "none" /\ n_out2.out = n_out.out)

\* the second call has been made on a Burst that differs from the raw input
C3_Witness ==
    /\ n_out.err = "none"
    /\ n_out2 # Pending
    /\ n_out.out # n_in

\* C4: the call raises exactly when the input has no non-zero entry (empty
\* before normalization) or exactly one (empty after it); otherwise it
\* returns a non-empty Burst.
C4_FailsExactlyWhenEmpty ==
    n_out # Pending =>
        /\ (n_out.err = "empty IR burst") <=> (NonZeroCount(n_in) = 0)
        /\ (n_out.err = "invalid IR burst after normalization") <=> (NonZeroCount(n_in) = 1)
        /\ (n_out.err = "none") <=> (NonZeroCount(n_in) >= 2)
        /\ (n_out.err = "none") => (n_out.out # <<>>)
        /\ (n_out.err # "none") => (n_out.out = <<>>)

\* the call raised on an input of several entries of which one is non-zero
C4_Witness ==
    /\ n_out.err = "invalid IR burst after normalization"
    /\ Len(n_in) >= 2

\* ------------------------------------------------- extract_first_frame_us
\* variant: > in place of >= at line 152
RECURSIVE FrameLoopStrict(_, _, _, _)
FrameLoopStrict(arr, i, gap, out) ==
    IF i > Len(arr) THEN out
    ELSE IF i + 1 > Len(arr) THEN out
    ELSE LET taken == out \o <<arr[i], arr[i + 1]>>
         IN  IF Abs(arr[i + 1]) > gap THEN taken
             ELSE FrameLoopStrict(arr, i + 2, gap, taken)

\* lines 146-153: take (on, off) pairs from index i on, stopping after the
\* first pair whose off magnitude reaches gap, or when no off is left
RECURSIVE FrameLoop(_, _, _, _)
FrameLoop(arr, i, gap, out) ==
    IF i > Len(arr) THEN out
    ELSE IF i + 1 > Len(arr) THEN out
    ELSE LET taken == out \o <<arr[i], arr[i + 1]>>
         IN  IF Abs(arr[i + 1]) >= gap THEN taken
             ELSE FrameLoop(arr, i + 2, gap, taken)

\* lines 144-156
extract_first_frame_us(durations_us, gap_us) ==
    LET r == normalize_burst_us(durations_us)
    IN  IF r.err # "none" THEN r
        ELSE LET arr == r.out
                 out == DropTrailingIfOdd(FrameLoop(arr, 1, gap_us, <<>>))
             IN  Returned(IF out # <<>> THEN out ELSE arr)

\* ------------------------------------------------- specification: frame extractor
RECURSIVE BurstsOfPairs(_, _)
BurstsOfPairs(M, n) ==
    IF n = 0 THEN {<<>>}
    ELSE {b \o <<on, -off>> : b \in BurstsOfPairs(M, n - 1), on \in M, off \in M}

SmallBursts == UNION {BurstsOfPairs(1..MaxMag, n) : n \in 1..MaxPairs}

ExampleBurst == <<1000, -500, 1000, -8000, 1000, -500>>
ExampleGap == 7000

FrameInputs == SmallBursts \cup RawSeqs \cup {ExampleBurst}
FrameGaps == (0..(MaxMag + 1)) \cup {ExampleGap}

FrameInit ==
    /\ f_in \in FrameInputs
    /\ f_gap \in FrameGaps
    /\ f_out = Pending
    /\ NormIdle
    /\ PulseIdle
    /\ HoldIdle
    /\ LaterIdle

\* a call extract_first_frame_us(f_in, f_gap)
ExtractFirstFrame ==
    /\ f_out = Pending
    /\ f_out' = extract_first_frame_us(f_in, f_gap)
    /\ UNCHANGED <<f_in, f_gap, norm_vars, pulse_vars, hold_vars, later_vars>>

FrameNext == ExtractFirstFrame

SpecFrame == FrameInit /\ [][FrameNext]_vars

\* ------------------------------------------------- properties: frame extractor
\* the pairs of b whose space (odd 0-based index) has magnitude >= g
GapPairs(b, g) == {k \in 1..(Len(b) \div 2) : Abs(b[2 * k]) >= g}

\* C5: on a normalized Burst the result is the prefix up to and including the
\* first space of magnitude >= gap, the whole Burst when there is none; the
\* example burst with gap 7000 gives its first four entries.
C5_FirstFrameIsPrefix ==
    (f_out # Pending /\ IsBurst(f_in) /\ f_in # <<>>) =>
        /\ f_out.err = "none"
        /\ LET G == GapPairs(f_in, f_gap)
           IN  IF G = {} THEN f_out.out = f_in
               ELSE LET k == CHOOSE x \in G : \A y \in G : x <= y
                    IN  f_out.out = SubSeq(f_in, 1, 2 * k)
        /\ (f_in = ExampleBurst /\ f_gap = ExampleGap) =>
               f_out.out = <<1000, -500, 1000, -8000>>

\* the example call has returned its four-entry frame
C5_Witness ==
    /\ f_in = ExampleBurst
    /\ f_gap = ExampleGap
    /\ f_out = Returned(<<1000, -500, 1000, -8000>>)

\* ------------------------------------------------- build_pulses_for_burst
Max(a, b) == IF a >= b THEN a ELSE b
Min(a, b) == IF a <= b THEN a ELSE b

\* int(round(num / den)) for num >= 0, den > 0: Python rounds halves to even
RoundHalfEven(num, den) ==
    LET q == num \div den
        r == num % den
    IN  IF 2 * r > den \/ (2 * r = den /\ q % 2 = 1) THEN q + 1 ELSE q

\* line 166
Period(carrier_khz) == Max(2, RoundHalfEven(1000000, carrier_khz * 1000))

\* line 167
OnUs(period, duty_pct) == Max(1, RoundHalfEven(period * duty_pct, 100))

\* line 168
OffUs(period, on_us) == Max(1, period - on_us)

\* pigpio.pulse(1 << tx_gpio, 0, d) and pigpio.pulse(0, 1 << tx_gpio, d)
High(d) == [gpio_on |-> "tx", gpio_off |-> "none", delay |-> d]
Low(d) == [gpio_on |-> "none", gpio_off |-> "tx", delay |-> d]

\* variant: the test of line 176 left out
RECURSIVE MarkLoopAlwaysLow(_, _, _, _, _)
MarkLoopAlwaysLow(remaining, period, on_us, off_us, pulses) ==
    IF remaining <= 0 THEN pulses
    ELSE LET t_on == IF remaining >= period THEN on_us ELSE Min(on_us, remaining)
             t_off == IF remaining >= period THEN off_us ELSE Max(0, remaining - t_on)
         IN  MarkLoopAlwaysLow(remaining - (t_on + t_off), period, on_us, off_us,
                               pulses \o <<High(t_on), Low(t_off)>>)

\* lines 172-178: the while loop of mark()
RECURSIVE MarkLoop(_, _, _, _, _)
MarkLoop(remaining, period, on_us, off_us, pulses) ==
    IF remaining <= 0 THEN pulses
    ELSE LET t_on == IF remaining >= period THEN on_us ELSE Min(on_us, remaining)
             t_off == IF remaining >= period THEN off_us ELSE Max(0, remaining - t_on)
             p1 == Append(pulses, High(t_on))
             p2 == IF t_off > 0 THEN Append(p1, Low(t_off)) ELSE p1
         IN  MarkLoop(remaining - (t_on + t_off), period, on_us, off_us, p2)

\* lines 170-178
mark(us, period, on_us, off_us, pulses) ==
    MarkLoop(Max(1, us), period, on_us, off_us, pulses)

\* lines 180-181
space(us, pulses) == Append(pulses, Low(Max(1, us)))

\* one burst entry handled: its index in durations_us and the positions
\* first..last its pulses take in the list
Seg(idx, before, after) == [idx |-> idx, first |-> Len(before) + 1, last |-> Len(after)]

\* lines 184-193: the iterator loop; i is the 1-based index the iterator is at
RECURSIVE BuildLoop(_, _, _, _, _, _)
BuildLoop(d, i, period, on_us, off_us, acc) ==
    IF i > Len(d) THEN acc
    ELSE IF d[i] <= 0 THEN BuildLoop(d, i + 1, period, on_us, off_us, acc)
    ELSE LET m == mark(d[i], period, on_us, off_us, acc.pulses)
             am == [pulses |-> m, segs |-> Append(acc.segs, Seg(i, acc.pulses, m))]
         IN  IF i + 1 > Len(d) THEN am
             ELSE IF d[i + 1] # 0
                  THEN LET sp == space(Abs(d[i + 1]), m)
                       IN  BuildLoop(d, i + 2, period, on_us, off_us,
                                     [pulses |-> sp,
                                      segs |-> Append(am.segs, Seg(i + 1, m, sp))])
                  ELSE BuildLoop(d, i + 2, period, on_us, off_us, am)

\* lines 159-195; connected is what get_pi() finds at line 164
build_pulses_for_burst(connected, durations_us, carrier_khz, duty_pct) ==
    IF ~connected THEN [pulses |-> <<>>, segs |-> <<>>, err |-> "pigpiod not connected"]
    ELSE LET period == Period(carrier_khz)
             on_us == OnUs(period, duty_pct)
             off_us == OffUs(period, on_us)
             r == BuildLoop(durations_us, 1, period, on_us, off_us,
                            [pulses |-> <<>>, segs |-> <<>>])
         IN  [pulses |-> r.pulses, segs |-> r.segs, err |-> "none"]

\* ------------------------------------------------- specification: pulse builder
PulseBursts ==
    UNION {BurstsOfPairs(1..MaxMark, n) : n \in 1..1}
    \cup {<<a, -b, c, -d>> : a \in 1..MaxMark, c \in 1..MaxMark,
                             b \in 1..MaxSpace, d \in 1..MaxSpace}
    \cup RawSeqs

\* carrier frequencies in kHz: periods of 26, 5, 4, 3, 2 (from 2.5) and 2 us
Carriers == {38, 200, 250, 333, 400, 500}

\* duty cycles in percent
Duties == {0, 33, 50, 100}

PulseInit ==
    /\ p_burst \in PulseBursts
    /\ p_carrier \in Carriers
    /\ p_duty \in Duties
    /\ p_conn \in BOOLEAN
    /\ p_out = Pending
    /\ p_segs = <<>>
    /\ NormIdle
    /\ FrameIdle
    /\ HoldIdle
    /\ LaterIdle

\* a call build_pulses_for_burst(IR_TX_GPIO, p_burst, p_carrier, p_duty)
BuildPulses ==
    /\ p_out = Pending
    /\ LET r == build_pulses_for_burst(p_conn, p_burst, p_carrier, p_duty)
       IN  /\ p_out' = IF r.err = "none" THEN Returned(r.pulses) ELSE Raised(r.err)
           /\ p_segs' = r.segs
    /\ UNCHANGED <<p_burst, p_carrier, p_duty, p_conn, norm_vars, frame_vars, hold_vars,
                 later_vars>>

PulseNext == BuildPulses

SpecPulse == PulseInit /\ [][PulseNext]_vars

\* ------------------------------------------------- properties: pulse builder
RECURSIVE SumDelays(_, _, _)
SumDelays(pulses, first, last) ==
    IF first > last THEN 0
    ELSE pulses[first].delay + SumDelays(pulses, first + 1, last)

IsHigh(p) == p.gpio_on = "tx"

\* the segments of the returned list that came from marks / from spaces
MarkSegs == {k \in 1..Len(p_segs) : (p_segs[k].idx - 1) % 2 = 0}
SpaceSegs == {k \in 1..Len(p_segs) : (p_segs[k].idx - 1) % 2 = 1}

\* the carrier chunks of a mark segment: each starts at a high pulse and runs
\* through the low pulse after it, if any; the value is the chunk's duration
ChunkStarts(k) ==
    {j \in p_segs[k].first..p_segs[k].last : IsHigh(p_out.out[j])}

ChunkDuration(k, j) ==
    p_out.out[j].delay +
        (IF j + 1 <= p_segs[k].last /\ ~IsHigh(p_out.out[j + 1])
         THEN p_out.out[j + 1].delay ELSE 0)

PulseCase == p_out.err = "none" /\ IsBurst(p_burst) /\ p_burst # <<>>

\* C6: a mark that is an exact multiple of the carrier period is made of full
\* chunks only (each one period long); a mark with a remainder has exactly one
\* partial chunk, the last, whose high and low parts sum to the remainder.
C6_ChunksFullOrOnePartial ==
    PulseCase =>
        \A k \in MarkSegs :
            LET us == p_burst[p_segs[k].idx]
                period == Period(p_carrier)
                rem == us % period
                starts == ChunkStarts(k)
                lastStart == CHOOSE j \in starts : \A x \in starts : x <= j
            IN  /\ starts # {}
                /\ \A j \in starts :
                      ChunkDuration(k, j) =
                          IF rem # 0 /\ j = lastStart THEN rem ELSE period

\* C7: the pulses of a mark segment last exactly the mark duration in total,
\* and a space segment is exactly one low pulse of the space's magnitude.
C7_SegmentsCoverExactly ==
    PulseCase =>
        /\ \A k \in MarkSegs :
              SumDelays(p_out.out, p_segs[k].first, p_segs[k].last)
                  = p_burst[p_segs[k].idx]
        /\ \A k \in SpaceSegs :
              /\ p_segs[k].first = p_segs[k].last
              /\ p_out.out[p_segs[k].first] = Low(Abs(p_burst[p_segs[k].idx]))
        /\ Len(p_segs) = Len(p_burst)

\* C8: every pulse of the returned list lasts at least 1 microsecond.
C8_NoDegeneratePulse ==
    p_out.err = "none" =>
        \A j \in 1..Len(p_out.out) : p_out.out[j].delay >= 1

\* a returned list for a Burst whose mark ends in a partial chunk that fits in
\* the high part, so that the chunk has no low part at all
C8_Witness ==
    /\ PulseCase
    /\ \E k \in MarkSegs :
          LET us == p_burst[p_segs[k].idx]
              period == Period(p_carrier)
          IN  /\ us % period # 0
              /\ us % period <= OnUs(period, p_duty)
              /\ IsHigh(p_out.out[p_segs[k].last])

\* ------------------------------------------------- hold scheduler
others_unchanged == UNCHANGED <<norm_vars, frame_vars, pulse_vars, later_vars>>
rest_unchanged == UNCHANGED <<norm_vars, frame_vars, pulse_vars, later_vars, calls>>

\* a request thread's call returns (or raises) with outcome res; after_stop
\* marks a start entered right after a hold_stop of its id returned True,
\* with no call having returned since
FinishFrom(cs, c, res) ==
    /\ clients' = [d \in Clients |->
          IF d = c THEN IdleClient ELSE [cs[d] EXCEPT !.after_stop = FALSE]]
    /\ last_done' = [op |-> cs[c].op, id |-> cs[c].id, res |-> res]

Finish(c, res) == FinishFrom(clients, c, res)

\* op ("stop" or "stop_all") sets the stop flag of id: noted in the worker
\* threads of id and in the start calls of id that are past line 319
SignalWorkers(id, op) ==
    [w \in Slots |->
        IF workers[w].pc # "free" /\ workers[w].id = id
        THEN [workers[w] EXCEPT !.sig = @ \cup {op}] ELSE workers[w]]

SignalClients(id, op) ==
    [d \in Clients |->
        IF clients[d].pc = "start_register" /\ clients[d].id = id
        THEN [clients[d] EXCEPT !.sig = @ \cup {op}] ELSE clients[d]]

Goto(c, pc) == clients' = [clients EXCEPT ![c].pc = pc]

\* hold ids are interchangeable: the first call of a run names H1
CallIds == IF calls = 0 THEN {"H1"} ELSE HoldIds

\* idle request threads are interchangeable: a call goes to the first of them
IsNextIdle(c) ==
    /\ clients[c].pc = "idle"
    /\ \A d \in Clients : d < c => clients[d].pc # "idle"

\* a request thread enters hold_start_from_burst(id, burst_us, carrier, interval_ms)
CallHoldStart(c) ==
    /\ IsNextIdle(c)
    /\ calls < MaxCalls
    /\ calls' = calls + 1
    /\ \E id \in CallIds :
          clients' = [clients EXCEPT ![c] =
              [IdleClient EXCEPT !.pc = "start_check", !.op = "start", !.id = id,
                                 !.args = ArgsOfCall(calls + 1),
                                 !.after_stop =
                                     (last_done = [op |-> "stop", id |-> id, res |-> "true"])]]
    /\ UNCHANGED <<hold_threads, hold_stop, workers, last_done>>
    /\ others_unchanged

\* variant: the test of line 317 left out
HoldStartCheckUnguarded(c) ==
    /\ clients[c].pc = "start_check"
    /\ Goto(c, "start_flag")
    /\ UNCHANGED <<hold_threads, hold_stop, workers, last_done>>
    /\ rest_unchanged

\* lines 317-318: raise when the id is registered
HoldStartCheck(c) ==
    /\ clients[c].pc = "start_check"
    /\ IF clients[c].id \in DOMAIN hold_threads
       THEN Finish(c, "already running")
       ELSE Goto(c, "start_flag") /\ UNCHANGED last_done
    /\ UNCHANGED <<hold_threads, hold_stop, workers>>
    /\ rest_unchanged

\* line 319: _hold_stop[hold_id] = False
HoldStartFlag(c) ==
    /\ clients[c].pc = "start_flag"
    /\ hold_stop' = DictSet(hold_stop, clients[c].id, FALSE)
    /\ Goto(c, "start_register")
    /\ UNCHANGED <<hold_threads, workers, last_done>>
    /\ rest_unchanged

\* lines 320-321: create the thread object and register it under the id
HoldStartRegister(c) ==
    /\ clients[c].pc = "start_register"
    /\ \E w \in Slots :
          /\ workers[w].pc = "free"
          /\ \A v \in Slots : workers[v].pc = "free" => w <= v
          /\ workers' = [workers EXCEPT ![w] =
                [pc |-> "new", id |-> clients[c].id, args |-> clients[c].args,
                 norm |-> <<>>, sig |-> clients[c].sig]]
          /\ hold_threads' = DictSet(hold_threads, clients[c].id, w)
          /\ clients' = [clients EXCEPT ![c].pc = "start_run", ![c].w = w]
    /\ UNCHANGED <<hold_stop, last_done>>
    /\ rest_unchanged

\* line 322: t.start(), then the call returns
HoldStartRun(c) ==
    /\ clients[c].pc = "start_run"
    /\ workers' = [workers EXCEPT ![clients[c].w].pc = "norm"]
    /\ Finish(c, "ok")
    /\ UNCHANGED <<hold_threads, hold_stop>>
    /\ rest_unchanged

\* a request thread enters hold_stop(id)
CallHoldStop(c) ==
    /\ IsNextIdle(c)
    /\ calls < MaxCalls
    /\ calls' = calls + 1
    /\ \E id \in CallIds :
          clients' = [clients EXCEPT ![c] =
              [IdleClient EXCEPT !.pc = "stop_check", !.op = "stop", !.id = id]]
    /\ UNCHANGED <<hold_threads, hold_stop, workers, last_done>>
    /\ others_unchanged

\* lines 325, 328
HoldStopCheck(c) ==
    /\ clients[c].pc = "stop_check"
    /\ IF clients[c].id \in DOMAIN hold_threads
       THEN Goto(c, "stop_flag") /\ UNCHANGED last_done
       ELSE Finish(c, "false")
    /\ UNCHANGED <<hold_threads, hold_stop, workers>>
    /\ rest_unchanged

\* lines 326-327
HoldStopFlag(c) ==
    /\ clients[c].pc = "stop_flag"
    /\ hold_stop' = DictSet(hold_stop, clients[c].id, TRUE)
    /\ workers' = SignalWorkers(clients[c].id, "stop")
    /\ FinishFrom(SignalClients(clients[c].id, "stop"), c, "true")
    /\ UNCHANGED hold_threads
    /\ rest_unchanged

\* a request thread enters hold_stop_all(); line 331: list(_hold_threads.keys())
CallHoldStopAll(c) ==
    /\ IsNextIdle(c)
    /\ calls < MaxCalls
    /\ calls' = calls + 1
    /\ clients' = [clients EXCEPT ![c] =
          [IdleClient EXCEPT !.pc = "stopall_loop", !.op = "stop_all",
                             !.todo = DOMAIN hold_threads]]
    /\ UNCHANGED <<hold_threads, hold_stop, workers, last_done>>
    /\ others_unchanged

\* line 332, once per listed id
HoldStopAllFlag(c) ==
    /\ clients[c].pc = "stopall_loop"
    /\ clients[c].todo # {}
    /\ \E hid \in clients[c].todo :
          /\ hold_stop' = DictSet(hold_stop, hid, TRUE)
          /\ workers' = SignalWorkers(hid, "stop_all")
          /\ clients' = [SignalClients(hid, "stop_all") EXCEPT ![c].todo = @ \ {hid}]
    /\ UNCHANGED <<hold_threads, last_done>>
    /\ rest_unchanged

\* line 333
HoldStopAllReturn(c) ==
    /\ clients[c].pc = "stopall_loop"
    /\ clients[c].todo = {}
    /\ Finish(c, "true")
    /\ UNCHANGED <<hold_threads, hold_stop, workers>>
    /\ rest_unchanged

\* _hold_worker, line 308: normalize, an exception leads to the finally block
WorkerNormalize(w) ==
    /\ workers[w].pc = "norm"
    /\ LET r == normalize_burst_us(workers[w].args.burst_us)
       IN  workers' = [workers EXCEPT
               ![w].pc = IF r.err = "none" THEN "loop" ELSE "fin_stop",
               ![w].norm = r.out]
    /\ UNCHANGED <<hold_threads, hold_stop, clients, last_done>>
    /\ rest_unchanged

\* line 309: while not _hold_stop.get(hold_id, False)
WorkerLoopTest(w) ==
    /\ workers[w].pc = "loop"
    /\ workers' = [workers EXCEPT ![w].pc =
          IF DictGet(hold_stop, workers[w].id, FALSE) THEN "fin_stop" ELSE "send"]
    /\ UNCHANGED <<hold_threads, hold_stop, clients, last_done>>
    /\ rest_unchanged

\* lines 310-311: send_raw_burst returns and the interval sleep is over
WorkerSend(w) ==
    /\ workers[w].pc = "send"
    /\ workers' = [workers EXCEPT ![w].pc = "loop"]
    /\ UNCHANGED <<hold_threads, hold_stop, clients, last_done>>
    /\ rest_unchanged

\* line 310: send_raw_burst raises (pigpio failure after the retry)
WorkerSendRaises(w) ==
    /\ workers[w].pc = "send"
    /\ workers' = [workers EXCEPT ![w].pc = "fin_stop"]
    /\ UNCHANGED <<hold_threads, hold_stop, clients, last_done>>
    /\ rest_unchanged

\* line 313: _hold_stop.pop(hold_id, None)
WorkerPopStop(w) ==
    /\ workers[w].pc = "fin_stop"
    /\ hold_stop' = DictPop(hold_stop, workers[w].id)
    /\ workers' = [workers EXCEPT ![w].pc = "fin_threads"]
    /\ UNCHANGED <<hold_threads, clients, last_done>>
    /\ rest_unchanged

\* line 314: _hold_threads.pop(hold_id, None); the thread ends
WorkerPopThread(w) ==
    /\ workers[w].pc = "fin_threads"
    /\ hold_threads' = DictPop(hold_threads, workers[w].id)
    /\ workers' = [workers EXCEPT ![w] = FreeSlot]
    /\ UNCHANGED <<hold_stop, clients, last_done>>
    /\ rest_unchanged

HoldInit == HoldIdle /\ NormIdle /\ FrameIdle /\ PulseIdle /\ LaterIdle

HoldNext ==
    \/ \E c \in Clients :
          \/ CallHoldStart(c)
          \/ HoldStartCheck(c)
          \/ HoldStartFlag(c)
          \/ HoldStartRegister(c)
          \/ HoldStartRun(c)
          \/ CallHoldStop(c)
          \/ HoldStopCheck(c)
          \/ HoldStopFlag(c)
          \/ CallHoldStopAll(c)
          \/ HoldStopAllFlag(c)
          \/ HoldStopAllReturn(c)
    \/ \E w \in Slots :
          \/ WorkerNormalize(w)
          \/ WorkerLoopTest(w)
          \/ WorkerSend(w)
          \/ WorkerSendRaises(w)
          \/ WorkerPopStop(w)
          \/ WorkerPopThread(w)

SpecHold == HoldInit /\ [][HoldNext]_vars

\* ------------------------------------------------- properties: hold scheduler
\* request thread c executes the test of line 317 in this step
TakesStartCheck(c) ==
    /\ clients[c].pc = "start_check"
    /\ clients'[c].pc # "start_check"

AlreadyRunning(id) == [op |-> "start", id |-> id, res |-> "already running"]

\* C9: a start whose id is registered when it is tested raises the
\* already-running error, and that step leaves the registered threads, the
\* stop flags and every worker (its burst, carrier and interval) as they were.
C9_DuplicateStartFails ==
    [][\A c \in Clients :
          (TakesStartCheck(c) /\ clients[c].id \in DOMAIN hold_threads) =>
              /\ last_done' = AlreadyRunning(clients[c].id)
              /\ clients'[c].pc = "idle"
              /\ UNCHANGED <<hold_threads, hold_stop, workers>>]_vars

\* a start has just failed as already running while the hold of that id,
\* started with other arguments than the failed call carried, is sending
C9_Witness ==
    \E id \in HoldIds :
        /\ last_done = AlreadyRunning(id)
        /\ id \in DOMAIN hold_threads
        /\ workers[hold_threads[id]].pc = "send"
        /\ workers[hold_threads[id]].args # ArgsOfCall(calls)
        /\ Cardinality({w \in Slots : workers[w].pc # "free"}) = 1

\* C10: a start of an id entered after hold_stop of that id has returned
\* True, with no other call returned since and none in progress, passes the
\* test of line 317 instead of raising the already-running error.
C10_RestartAfterStopSucceeds ==
    [][\A c \in Clients :
          (/\ TakesStartCheck(c)
           /\ clients[c].after_stop
           /\ \A d \in Clients \ {c} : clients[d].pc = "idle") =>
              clients'[c].pc = "start_flag"]_vars

\* the worker threads of hold id that have been started and have not ended
RunningWorkers(id) ==
    {w \in Slots : workers[w].id = id /\ workers[w].pc \notin {"free", "new"}}

\* C11: in every reachable state, also while two starts of one id are handled
\* by different request threads, at most one worker thread runs for any id.
C11_AtMostOneWorkerPerId ==
    \A id \in HoldIds : Cardinality(RunningWorkers(id)) <= 1

\* request thread c executes the test of line 325 in this step
TakesStopCheck(c) ==
    /\ clients[c].pc = "stop_check"
    /\ clients'[c].pc # "stop_check"

\* worker thread w evaluates the loop condition of line 309 in this step
TakesLoopTest(w) ==
    /\ workers[w].pc = "loop"
    /\ workers'[w].pc # "loop"

\* worker thread w leaves its try block for the finally block in this step
EntersFinally(w) ==
    /\ workers[w].pc \in {"norm", "loop", "send"}
    /\ workers'[w].pc = "fin_stop"

\* C12: hold_stop(id) returns True when id is registered at its test and
\* False when it is not; and a worker that a returned hold_stop has signalled
\* ends at its next loop test, so that after the send it was in (or was about
\* to begin) no further send follows.
C12_StopReturnsActiveAndEndsWorker ==
    [][/\ \A c \in Clients :
             TakesStopCheck(c) =>
                 IF clients[c].id \in DOMAIN hold_threads
                 THEN clients'[c].pc = "stop_flag"
                 ELSE last_done' = [op |-> "stop", id |-> clients[c].id, res |-> "false"]
       /\ \A c \in Clients :
             (clients[c].pc = "stop_flag" /\ clients'[c].pc # "stop_flag") =>
                 last_done' = [op |-> "stop", id |-> clients[c].id, res |-> "true"]
       /\ \A w \in Slots :
             (TakesLoopTest(w) /\ "stop" \in workers[w].sig) =>
                 workers'[w].pc = "fin_stop"]_vars

\* C13: a worker that hold_stop_all has signalled ends at its next loop
\* test; and a worker ends at a loop test only when hold_stop or
\* hold_stop_all has set its id's flag since its start cleared the flag, so a
\* hold started after hold_stop_all returned is not stopped by it.
C13_StopAllEndsActiveHoldsOnly ==
    [][\A w \in Slots :
          /\ (TakesLoopTest(w) /\ "stop_all" \in workers[w].sig) =>
                 workers'[w].pc = "fin_stop"
          /\ (TakesLoopTest(w) /\ workers'[w].pc = "fin_stop") =>
                 workers[w].sig # {}]_vars

\* C14: a worker leaves its sending loop, and an id leaves _hold_threads,
\* only after hold_stop or hold_stop_all has signalled that hold.
C14_HoldEndsOnlyWhenStopped ==
    [][/\ \A w \in Slots : EntersFinally(w) => workers[w].sig # {}
       /\ \A id \in DOMAIN hold_threads :
             id \notin DOMAIN hold_threads' => workers[hold_threads[id]].sig # {}]_vars

\* ------------------------------------------------- send_raw_burst
not_send == <<norm_vars, frame_vars, pulse_vars, hold_vars, learn_vars, timer_vars, hue_vars,
             tail_vars>>

\* lengths of the pulse list that lines 198-199 build: pulse k of the list is
\* identified by its position k, so the list is 1..total
Totals == {(k - 1) * MAX_PULSES + r : k \in 1..MaxChunks, r \in {1, MAX_PULSES}}

\* variant: the slice starts one pulse late
ChunkOfSkipping(idx, total) == <<idx + 2, Min(idx + MAX_PULSES, total)>>

\* line 210: pulses[idx: idx + MAX_PULSES], as first and last position
ChunkOf(idx, total) == <<idx + 1, Min(idx + MAX_PULSES, total)>>

ChunkLen(chunk) == Max(0, chunk[2] - chunk[1] + 1)

Logged(s, call, ok) == [call |-> call, ok |-> ok]

\* send_raw_burst raises out of sender s
SenderRaised(s, last) ==
    [senders[s] EXCEPT !.pc = "done", !.res = "raised", !.last = last, !.try = 0]

\* _retry, lines 79-86, when fn raised: on the first attempt drop the handle
\* and run fn again, on the second let the exception out (to after_raise)
RetryFailed(s, call, after_raise) ==
    /\ fails < MaxFails
    /\ fails' = fails + 1
    /\ IF senders[s].try = 0
       THEN /\ PI' = "none"
            /\ senders' = [senders EXCEPT ![s].try = 1, ![s].last = Logged(s, call, FALSE)]
       ELSE /\ PI' = "handle"
            /\ senders' = [senders EXCEPT ![s] = after_raise]
    /\ UNCHANGED not_send

\* _retry, line 78, when fn returned: get_pi() has left a handle in _PI
RetryReturned(s, after_return) ==
    /\ PI' = "handle"
    /\ senders' = [senders EXCEPT ![s] = after_return]
    /\ UNCHANGED <<fails, not_send>>

\* lines 198-208: the burst is normalized and its pulses are built
SendEnter(s) ==
    /\ senders[s].pc = "idle"
    /\ \E total \in Totals :
          senders' = [senders EXCEPT ![s] =
              [IdleSender EXCEPT !.pc = "loop", !.total = total, !.res = "pending"]]
    /\ PI' = "handle"
    /\ UNCHANGED <<fails, not_send>>

\* lines 198-199: normalize_burst_us or build_pulses_for_burst raises
SendEnterRaises(s) ==
    /\ senders[s].pc = "idle"
    /\ senders' = [senders EXCEPT ![s] =
          [IdleSender EXCEPT !.pc = "done", !.res = "raised"]]
    /\ UNCHANGED <<PI, fails, not_send>>

\* lines 209-211: the loop test, then the next chunk is sliced off
SendLoop(s) ==
    /\ senders[s].pc = "loop"
    /\ IF senders[s].idx < senders[s].total
       THEN LET chunk == ChunkOf(senders[s].idx, senders[s].total)
            IN  senders' = [senders EXCEPT ![s].pc = "reset",
                                           ![s].chunk = chunk,
                                           ![s].idx = @ + ChunkLen(chunk),
                                           ![s].try = 0, ![s].wid = -1,
                                           ![s].exc = FALSE, ![s].last = NoneCalled]
       ELSE senders' = [senders EXCEPT ![s].pc = "done", ![s].res = "ok"]
    /\ UNCHANGED <<PI, fails, not_send>>

\* line 213: wave_tx_stop() and wave_clear() return
ResetOk(s) ==
    /\ senders[s].pc = "reset"
    /\ RetryReturned(s, [senders[s] EXCEPT !.pc = "add", !.try = 0,
                                           !.last = Logged(s, "reset", TRUE)])

\* line 213: one of the two raises
ResetFail(s) ==
    /\ senders[s].pc = "reset"
    /\ RetryFailed(s, "reset", SenderRaised(s, Logged(s, "reset", FALSE)))

\* line 214: wave_add_generic(chunk) returns
AddOk(s) ==
    /\ senders[s].pc = "add"
    /\ RetryReturned(s, [senders[s] EXCEPT !.pc = "create", !.try = 0,
                                           !.last = Logged(s, "add", TRUE),
                                           !.chunks = Append(@, senders[s].chunk)])

AddFail(s) ==
    /\ senders[s].pc = "add"
    /\ RetryFailed(s, "add", SenderRaised(s, Logged(s, "add", FALSE)))

\* line 215: wave_create() returns a wave id
CreateOk(s) ==
    /\ senders[s].pc = "create"
    /\ \E wid \in Wids :
          RetryReturned(s, [senders[s] EXCEPT !.pc = "send", !.try = 0, !.wid = wid,
                                              !.last = Logged(s, "create", TRUE)])

CreateFail(s) ==
    /\ senders[s].pc = "create"
    /\ RetryFailed(s, "create", SenderRaised(s, Logged(s, "create", FALSE)))

\* line 217: wave_send_once(wid) returns
SendOnceOk(s) ==
    /\ senders[s].pc = "send"
    /\ RetryReturned(s, [senders[s] EXCEPT !.pc = "wait", !.try = 0,
                                           !.last = Logged(s, "send_once", TRUE)])

\* line 217 raises: after the retry the exception passes through the finally block
SendOnceFail(s) ==
    /\ senders[s].pc = "send"
    /\ RetryFailed(s, "send_once",
                   [senders[s] EXCEPT !.pc = "delete", !.try = 0, !.exc = TRUE,
                                      !.last = Logged(s, "send_once", FALSE)])

\* lines 218-219: wave_tx_busy() is true, the sender sleeps and polls again
WaitBusy(s) ==
    /\ senders[s].pc = "wait"
    /\ RetryReturned(s, [senders[s] EXCEPT !.last = Logged(s, "busy", TRUE)])

\* line 218: wave_tx_busy() is false, the wait is over
WaitDone(s) ==
    /\ senders[s].pc = "wait"
    /\ RetryReturned(s, [senders[s] EXCEPT !.pc = "delete", !.try = 0,
                                           !.last = Logged(s, "idle", TRUE)])

\* line 218 raises: no _retry around it, the exception passes through the
\* finally block
WaitFail(s) ==
    /\ senders[s].pc = "wait"
    /\ fails < MaxFails
    /\ fails' = fails + 1
    /\ PI' = "handle"
    /\ senders' = [senders EXCEPT ![s].pc = "delete", ![s].try = 0, ![s].exc = TRUE,
                                  ![s].last = Logged(s, "busy", FALSE)]
    /\ UNCHANGED not_send

\* the end of the finally block, lines 220-224: a pending exception goes on
\* to the caller, otherwise the loop continues
AfterFinally(s, last) ==
    IF senders[s].exc
    THEN SenderRaised(s, last)
    ELSE [senders[s] EXCEPT !.pc = "loop", !.try = 0, !.last = last]

\* line 222: wave_delete(wid) returns
DeleteOk(s) ==
    /\ senders[s].pc = "delete"
    /\ RetryReturned(s, AfterFinally(s, Logged(s, "delete", TRUE)))

\* line 222 raises: after the retry the exception is dropped (lines 223-224)
DeleteFail(s) ==
    /\ senders[s].pc = "delete"
    /\ RetryFailed(s, "delete", AfterFinally(s, Logged(s, "delete", FALSE)))

\* the caller goes on after send_raw_burst has returned or raised
SendLeave(s) ==
    /\ senders[s].pc = "done"
    /\ senders' = [senders EXCEPT ![s] = IdleSender]
    /\ UNCHANGED <<PI, fails, not_send>>

SendInit ==
    /\ SendIdle /\ NormIdle /\ FrameIdle /\ PulseIdle /\ HoldIdle /\ LearnIdle /\ TimerIdle
    /\ HueIdle /\ TailIdle

SendNext ==
    \E s \in Senders :
        \/ SendEnter(s)
        \/ SendEnterRaises(s)
        \/ SendLoop(s)
        \/ ResetOk(s)
        \/ ResetFail(s)
        \/ AddOk(s)
        \/ AddFail(s)
        \/ CreateOk(s)
        \/ CreateFail(s)
        \/ SendOnceOk(s)
        \/ SendOnceFail(s)
        \/ WaitBusy(s)
        \/ WaitDone(s)
        \/ WaitFail(s)
        \/ DeleteOk(s)
        \/ DeleteFail(s)
        \/ SendLeave(s)

SpecSend == SendInit /\ [][SendNext]_vars

\* ------------------------------------------------- properties: send_raw_burst
\* sender s is between the reset of a chunk and the end of its release
InSequence(s) ==
    senders[s].pc \in {"reset", "add", "create", "send", "wait", "delete"}

\* C15: the transmit sequences of two senders never overlap: while one sender
\* is between its reset and its release, no other sender is.
C15_OneBurstInFlight ==
    \A s \in Senders : \A t \in Senders \ {s} : ~(InSequence(s) /\ InSequence(t))

\* a transmitter call of sender s raises in this step
CallFails(s) ==
    /\ InSequence(s)
    /\ fails' = fails + 1
    /\ senders'[s] # senders[s]

\* C16: the first failure of a step drops the handle and restarts the
\* sequence at its first step, the reset; and an exception reaches the caller
\* of send_raw_burst only after a second failure.
C16_WholeSequenceRetriedOnce ==
    [][\A s \in Senders :
          /\ (CallFails(s) /\ fails = 0) =>
                 (PI' = "none" /\ senders'[s].pc = "reset")
          /\ (InSequence(s) /\ senders'[s].res = "raised") => fails' >= 2]_vars

\* the place of a transmitter call in the order of one chunk
Rank(call) ==
    CASE call = "none" -> 0
      [] call = "reset" -> 1
      [] call = "add" -> 2
      [] call = "create" -> 3
      [] call = "send_once" -> 4
      [] call \in {"busy", "idle"} -> 5
      [] call = "delete" -> 6

\* the previous call has run to its end: it returned and, for a poll, the
\* transmitter was not busy
Completed(c) == c.ok /\ c.call # "busy"

\* the chunks handed over so far follow one another from the first pulse on,
\* none is empty or longer than MAX_PULSES
ChunksInOrder(s) ==
    LET ch == senders[s].chunks
    IN  \A k \in 1..Len(ch) :
            /\ ch[k][1] = (IF k = 1 THEN 1 ELSE ch[k - 1][2] + 1)
            /\ ch[k][2] >= ch[k][1]
            /\ ch[k][2] - ch[k][1] + 1 <= MAX_PULSES

\* C20: the calls for one chunk come in the order reset, submit, create
\* (these two as add and create), send once, wait, release: a call of a later
\* step follows only the completed step before it, except that the release
\* also follows a failed send-once or wait; a sender leaves a chunk whose wave
\* was created only through the release; and the chunks are at most MAX_PULSES
\* long, follow one another without gap or overlap, and cover the whole pulse
\* list when send_raw_burst returns.
C20_ChunkCallsInOrder ==
    /\ [](\A s \in Senders :
             /\ ChunksInOrder(s)
             /\ senders[s].res = "ok" =>
                    /\ senders[s].chunks # <<>>
                    /\ senders[s].chunks[Len(senders[s].chunks)][2] = senders[s].total)
    /\ [][\A s \in Senders :
             LET c == senders[s].last
                 d == senders'[s].last
             IN  /\ (InSequence(s) /\ (d # c \/ senders'[s].try # senders[s].try
                                       \/ senders'[s].pc # senders[s].pc)) =>
                        /\ Rank(d.call) >= Max(1, Rank(c.call))
                        /\ Rank(d.call) > Rank(c.call) =>
                               \/ Rank(d.call) = Rank(c.call) + 1 /\ Completed(c)
                               \/ d.call = "delete" /\ Rank(c.call) >= 4
                        /\ d.call = "delete" => senders[s].wid \in Wids
                 /\ (InSequence(s) /\ ~InSequence(s)' /\ senders[s].wid \in Wids) =>
                        d.call = "delete"]_vars

\* send_raw_burst has returned after its last chunk: the wave's release
\* failed twice and was dropped, and an earlier chunk went through
C20_Witness ==
    \E s \in Senders :
        /\ senders[s].pc = "done"
        /\ senders[s].res = "ok"
        /\ Len(senders[s].chunks) >= 2
        /\ senders[s].last = [call |-> "delete", ok |-> FALSE]

\* ------------------------------------------------- learn / capture
not_learn ==
    <<norm_vars, frame_vars, pulse_vars, hold_vars, send_vars, timer_vars, hue_vars, tail_vars>>

\* pigpio.tickDiff(t1, t2), line 250: ticks are 32 bit microsecond counts
tickDiff(t1, t2) == IF t2 - t1 < 0 THEN t2 - t1 + 65536 * 65536 ELSE t2 - t1

\* lines 285-286
DropLeadingZero(raw) ==
    IF raw # <<>> /\ raw[1] = 0 THEN SubSeq(raw, 2, Len(raw)) ELSE raw

\* lines 295, 298
AbsAll(b) == [i \in 1..Len(b) |-> Abs(b[i])]

\* lines 297-299: load the database, set db[remote][key], save it
SaveCode(codes, remote, key, burst) ==
    [n \in DOMAIN codes \cup {<<remote, key>>} |->
        IF n = <<remote, key>> THEN burst ELSE codes[n]]

\* variant: the raw capture is stored before it is normalized
learn_stop_and_save_eager(active, edges, codes, remote, key) ==
    IF ~active
    THEN [active |-> active, res |-> Raised("learn not active"), db |-> codes]
    ELSE LET raw == DropLeadingZero(edges)
             n == normalize_burst_us(raw)
             stored == SaveCode(codes, remote, key, AbsAll(raw))
         IN  IF n.err # "none"
             THEN [active |-> FALSE, res |-> n, db |-> stored]
             ELSE LET f == extract_first_frame_us(n.out, ExampleGap)
                  IN  IF f.err # "none"
                      THEN [active |-> FALSE, res |-> f, db |-> stored]
                      ELSE [active |-> FALSE, res |-> Returned(AbsAll(f.out)),
                            db |-> SaveCode(codes, remote, key, AbsAll(f.out))]

\* lines 266-300: what the call leaves in _learn_active and in the database,
\* and its outcome
learn_stop_and_save(active, edges, codes, remote, key) ==
    IF ~active
    THEN [active |-> active, res |-> Raised("learn not active"), db |-> codes]
    ELSE LET raw == DropLeadingZero(edges)
             n == normalize_burst_us(raw)
         IN  IF n.err # "none"
             THEN [active |-> FALSE, res |-> n, db |-> codes]
             ELSE LET f == extract_first_frame_us(n.out, ExampleGap)
                  IN  IF f.err # "none"
                      THEN [active |-> FALSE, res |-> f, db |-> codes]
                      ELSE [active |-> FALSE, res |-> Returned(AbsAll(f.out)),
                            db |-> SaveCode(codes, remote, key, AbsAll(f.out))]

\* lines 253-264, pigpiod connected
LearnStart ==
    /\ IF learn_active
       THEN UNCHANGED <<learn_active, learn_edges, learn_cb, learn_start_tick, learn_res>>
       ELSE /\ learn_active' = TRUE
            /\ learn_edges' = <<>>
            /\ learn_start_tick' = 0
            /\ learn_cb' = TRUE
            /\ learn_res' = Pending
    /\ UNCHANGED <<rx_tick, db, not_learn>>

\* lines 253-261: get_pi() raises after the session was marked active
LearnStartRaises ==
    /\ ~learn_active
    /\ learn_active' = TRUE
    /\ learn_edges' = <<>>
    /\ learn_start_tick' = 0
    /\ learn_res' = Pending
    /\ UNCHANGED <<learn_cb, rx_tick, db, not_learn>>

\* lines 245-251: the receiver pin changes level d ticks after its last change
RxCallback(d) ==
    /\ learn_cb
    /\ Len(learn_edges) < MaxEdges
    /\ rx_tick + d <= MaxTick
    /\ LET tick == rx_tick + d
       IN  /\ rx_tick' = tick
           /\ learn_start_tick' = tick
           /\ IF learn_start_tick = 0
              THEN UNCHANGED learn_edges
              ELSE learn_edges' = Append(learn_edges, tickDiff(learn_start_tick, tick))
    /\ UNCHANGED <<learn_active, learn_cb, db, learn_res, not_learn>>

\* a call learn_stop_and_save(remote, key)
LearnStopAndSave(remote, key) ==
    /\ LET r == learn_stop_and_save(learn_active, learn_edges, db, remote, key)
       IN  /\ learn_active' = r.active
           /\ learn_res' = r.res
           /\ db' = r.db
           /\ learn_cb' = IF learn_active THEN FALSE ELSE learn_cb
    /\ UNCHANGED <<learn_edges, learn_start_tick, rx_tick, not_learn>>

\* a database that holds a code already, or none; the receiver's tick counter
\* is at 0 or beyond it, and stays below MaxTick, far from its 32 bit wrap
LearnInit ==
    /\ learn_active = FALSE
    /\ learn_edges = <<>>
    /\ learn_cb = FALSE
    /\ learn_start_tick = 0
    /\ rx_tick \in {0, 5}
    /\ db \in {[n \in {} |-> <<>>], [n \in {<<"tv", "power">>} |-> <<9, 4>>]}
    /\ learn_res = Raised("none yet")
    /\ NormIdle /\ FrameIdle /\ PulseIdle /\ HoldIdle /\ SendIdle /\ TimerIdle /\ HueIdle
    /\ TailIdle

LearnNext ==
    \/ LearnStart
    \/ LearnStartRaises
    \/ \E d \in 0..MaxDelta : RxCallback(d)
    \/ \E n \in CodeNames : LearnStopAndSave(n[1], n[2])

SpecLearn == LearnInit /\ [][LearnNext]_vars

\* ------------------------------------------------- properties: learn / capture
NoSignalErrors ==
    {Raised("empty IR burst"), Raised("invalid IR burst after normalization")}

\* C17: a stop of an active session that captured fewer than two edge
\* intervals raises the normalizer's empty-burst error, leaves the database as
\* it was, and leaves the session inactive.
C17_TooFewEdgesFailsAndSavesNothing ==
    [][(learn_res = Pending /\ learn_res' # Pending /\ Len(learn_edges) < 2) =>
           /\ learn_res' \in NoSignalErrors
           /\ db' = db
           /\ ~learn_active'
           /\ ~learn_cb']_vars

\* a session that captured one interval was stopped: the call raised, the
\* session is over and the code stored before is still the only one
C17_Witness ==
    /\ learn_res = Raised("invalid IR burst after normalization")
    /\ Len(learn_edges) = 1
    /\ ~learn_active
    /\ db = [n \in {<<"tv", "power">>} |-> <<9, 4>>]

\* ------------------------------------------------- OSD timer (video server)
not_timer ==
    <<norm_vars, frame_vars, pulse_vars, hold_vars, send_vars, learn_vars, hue_vars, tail_vars>>

\* int(max(0, round(end - time.monotonic()))), lines 472 and 568: whole
\* seconds, halves rounded to even
SecondsLeft(end, now) ==
    IF end - now <= 0 THEN 0 ELSE RoundHalfEven(end - now, TimeRes)

\* variant: the deadline is left as it was
ResumedEndStale(end, now, pause_left) == end

\* line 577: the deadline a resume arms
ResumedEnd(end, now, pause_left) == now + TimeRes * Max(0, pause_left)

\* time passes
ClockTick ==
    /\ t_now < MaxTime
    /\ t_now' = t_now + 1
    /\ UNCHANGED <<t_end, t_paused, t_pause_left, t_thread, t_shown, t_op, not_timer>>

\* lines 488-559: the previous run is ended, the pause state cleared, the
\* overlay blanked, the deadline armed and the loop thread started
StartOsdTimer(seconds) ==
    /\ t_paused' = FALSE
    /\ t_pause_left' = 0
    /\ t_shown' = -1
    /\ t_end' = t_now + TimeRes * Max(0, seconds)
    /\ t_thread' = "alive"
    /\ t_op' = "start"
    /\ UNCHANGED <<t_now, not_timer>>

\* lines 467-484: one turn of the loop of _osd_timer_loop
OsdTimerLoop ==
    /\ t_thread = "alive"
    /\ LET left == IF t_paused THEN Max(0, t_pause_left) ELSE SecondsLeft(t_end, t_now)
       IN  IF ~t_paused /\ left <= 0
           THEN t_thread' = "dead" /\ t_shown' = -1
           ELSE t_thread' = t_thread /\ t_shown' = left
    /\ t_op' = "loop"
    /\ UNCHANGED <<t_now, t_end, t_paused, t_pause_left, not_timer>>

\* lines 562-570
PauseOsdTimer ==
    /\ IF t_thread = "alive" /\ ~t_paused
       THEN /\ t_pause_left' = SecondsLeft(t_end, t_now)
            /\ t_paused' = TRUE
       ELSE UNCHANGED <<t_pause_left, t_paused>>
    /\ t_op' = "pause"
    /\ UNCHANGED <<t_now, t_end, t_thread, t_shown, not_timer>>

\* lines 572-578
ResumeOsdTimer ==
    /\ IF t_paused
       THEN /\ t_end' = ResumedEnd(t_end, t_now, t_pause_left)
            /\ t_paused' = FALSE
       ELSE UNCHANGED <<t_end, t_paused>>
    /\ t_op' = "resume"
    /\ UNCHANGED <<t_now, t_pause_left, t_thread, t_shown, not_timer>>

\* lines 580-600
StopOsdTimer ==
    /\ t_thread' = "none"
    /\ t_shown' = -1
    /\ t_paused' = FALSE
    /\ t_pause_left' = 0
    /\ t_op' = "stop"
    /\ UNCHANGED <<t_now, t_end, not_timer>>

TimerInit ==
    /\ TimerIdle
    /\ NormIdle /\ FrameIdle /\ PulseIdle /\ HoldIdle /\ SendIdle /\ LearnIdle /\ HueIdle
    /\ TailIdle

TimerNext ==
    \/ ClockTick
    \/ \E seconds \in 0..MaxSecs : StartOsdTimer(seconds)
    \/ OsdTimerLoop
    \/ PauseOsdTimer
    \/ ResumeOsdTimer
    \/ StopOsdTimer

SpecTimer == TimerInit /\ [][TimerNext]_vars

\* ------------------------------------------------- properties: OSD timer
\* the timer's own state, without the clock and the note of the last operation
TimerState == <<t_end, t_paused, t_pause_left, t_thread, t_shown>>

\* C18: a pause of a running timer keeps the seconds left at the pause; while
\* the timer stays paused that value does not change, the loop thread keeps
\* running and whatever the overlay is set to is that value, however far the
\* clock goes; a resume arms the deadline exactly that many seconds ahead; a
\* pause with no running timer and a resume with no paused timer change
\* nothing.
C18_PauseFreezesResumeContinues ==
    [][/\ (t_op' = "pause" /\ t_thread = "alive" /\ ~t_paused) =>
              /\ t_paused'
              /\ TimeRes * t_pause_left' - (t_end - t_now) \in (1 - TimeRes)..(TimeRes - 1)
                     \/ (t_end - t_now < 0 /\ t_pause_left' = 0)
              /\ UNCHANGED <<t_end, t_thread, t_shown>>
       /\ (t_paused /\ t_paused') =>
              /\ t_pause_left' = t_pause_left
              /\ t_thread' = "alive"
              /\ t_shown' # t_shown => t_shown' = t_pause_left
       /\ (t_op' = "resume" /\ t_paused) =>
              /\ ~t_paused'
              /\ t_end' - t_now' = TimeRes * t_pause_left
              /\ UNCHANGED <<t_pause_left, t_thread, t_shown>>
       /\ (t_op' = "pause" /\ ~(t_thread = "alive" /\ ~t_paused)) => UNCHANGED TimerState
       /\ (t_op' = "resume" /\ ~t_paused) => UNCHANGED TimerState]_vars

\* a paused timer whose deadline has long passed still shows the seconds that
\* were left at the pause
C18_Witness ==
    /\ t_paused
    /\ t_thread = "alive"
    /\ t_now > t_end + TimeRes
    /\ t_pause_left > 1
    /\ t_shown = t_pause_left
    /\ t_op = "loop"

\* ------------------------------------------------- Hue server
not_hue ==
    <<norm_vars, frame_vars, pulse_vars, hold_vars, send_vars, learn_vars, timer_vars, tail_vars>>

\* the names a URL path segment or a bridge light can carry
Names == UNION {[1..n -> Chars] : n \in 1..MaxNameLen}

\* name.replace("_", " "), line 70
ReplaceUnderscores(name) ==
    [i \in 1..Len(name) |-> IF name[i] = "_" THEN " " ELSE name[i]]

RECURSIVE LStrip(_)
LStrip(name) ==
    IF name # <<>> /\ Head(name) = " " THEN LStrip(Tail(name)) ELSE name

RECURSIVE RStrip(_)
RStrip(name) ==
    IF name # <<>> /\ name[Len(name)] = " "
    THEN RStrip(SubSeq(name, 1, Len(name) - 1))
    ELSE name

\* str.strip(), lines 70 and 217
Strip(name) == RStrip(LStrip(name))

\* lines 69-70
NormName(name) == Strip(ReplaceUnderscores(name))

\* dict assignment m[key] = value
Store(m, key, value) ==
    [k \in DOMAIN m \cup {key} |-> IF k = key THEN value ELSE m[k]]

\* dict.pop(key, None)
Remove(m, key) == [k \in DOMAIN m \ {key} |-> m[k]]

\* lines 72-77: the light id, or "404" for the HTTPException
ResolveLightIdByName(m, name) ==
    IF NormName(name) \in DOMAIN m THEN m[NormName(name)] ELSE "404"

\* lines 109-134, with the bridge's LINK button pressed
HueRegister ==
    /\ hue_bridge' = TRUE
    /\ hue_res' = [op |-> "register", name |-> <<>>, lid |-> "ok"]
    /\ UNCHANGED <<hue_map, not_hue>>

\* lines 162-167
HueMapPath(name, light_id) ==
    /\ Cardinality(DOMAIN hue_map \cup {NormName(name)}) <= MaxMapped
    /\ hue_map' = Store(hue_map, NormName(name), light_id)
    /\ hue_res' = [op |-> "map", name |-> <<>>, lid |-> "ok"]
    /\ UNCHANGED <<hue_bridge, not_hue>>

\* lines 210-222, with a bridge that reports the one light lid named bridge_name
HueMapAll(lid, bridge_name) ==
    /\ IF ~hue_bridge
       THEN /\ hue_res' = [op |-> "map_all", name |-> <<>>, lid |-> "400"]
            /\ UNCHANGED hue_map
       ELSE /\ Cardinality(DOMAIN hue_map \cup {Strip(bridge_name)}) <= MaxMapped
            /\ hue_map' = IF Strip(bridge_name) # <<>>
                          THEN Store(hue_map, Strip(bridge_name), lid)
                          ELSE hue_map
            /\ hue_res' = [op |-> "map_all", name |-> <<>>, lid |-> "ok"]
    /\ UNCHANGED <<hue_bridge, not_hue>>

\* lines 169-174
HueUnmap(name) ==
    /\ hue_map' = Remove(hue_map, NormName(name))
    /\ hue_res' = [op |-> "unmap", name |-> <<>>, lid |-> "ok"]
    /\ UNCHANGED <<hue_bridge, not_hue>>

\* lines 96-106: cogs_hue_on (op = "on") and cogs_hue_off (op = "off"); the
\* response carries the light id the name resolved to
CogsHue(op, name) ==
    /\ hue_res' = [op |-> op, name |-> name,
                   lid |-> IF ~hue_bridge THEN "400"
                           ELSE ResolveLightIdByName(hue_map, name)]
    /\ UNCHANGED <<hue_bridge, hue_map, not_hue>>

HueInit ==
    /\ HueIdle
    /\ NormIdle /\ FrameIdle /\ PulseIdle /\ HoldIdle /\ SendIdle /\ LearnIdle /\ TimerIdle
    /\ TailIdle

HueNext ==
    \/ HueRegister
    \/ \E name \in Names, light_id \in LightIds : HueMapPath(name, light_id)
    \/ \E lid \in LightIds, bridge_name \in Names : HueMapAll(lid, bridge_name)
    \/ \E name \in Names : HueUnmap(name)
    \/ \E op \in {"on", "off"}, name \in Names : CogsHue(op, name)

SpecHue == HueInit /\ [][HueNext]_vars

\* ------------------------------------------------- properties: Hue server
\* the ways to write a stored name in a URL: each space as a space or as an
\* underscore, every other character as it is
Spellings(stored) ==
    {u \in Names : /\ Len(u) = Len(stored)
                   /\ \A i \in 1..Len(u) :
                          IF stored[i] = " " THEN u[i] \in {" ", "_"} ELSE u[i] = stored[i]}

\* C19: with a bridge configured, an on or off request that names a stored
\* mapping by any of its spellings answers with the light id of that mapping.
C19_StoredNamesResolve ==
    [][\A stored \in DOMAIN hue_map :
           (/\ hue_bridge
            /\ hue_res'.op \in {"on", "off"}
            /\ hue_res'.name \in Spellings(stored)) => hue_res'.lid = hue_map[stored]]_vars

\* ------------------------------------------------- send_repeated_frame
\* everything before the components that follow
early_vars ==
    <<norm_vars, frame_vars, pulse_vars, hold_vars, send_vars, learn_vars, timer_vars, hue_vars>>

EarlyIdle ==
    /\ NormIdle /\ FrameIdle /\ PulseIdle /\ HoldIdle
    /\ SendIdle /\ LearnIdle /\ TimerIdle /\ HueIdle

not_repeat == <<early_vars, intr_vars, ipc_vars, osd_vars, loops_vars>>

RepeatBursts == BurstsOfPairs(1..MaxMag, 2) \cup {<<>>, <<0, 0>>, <<2>>}
RepeatGaps == (-1)..(MaxMag + 1)
Repeats == (-1)..MaxRepeat

\* a burst handed to send_raw_burst, as normalized at line 198, with the
\* line of the call: "frame" for line 232, "gap" for line 236
Sent(kind, durations_us) == [kind |-> kind, burst |-> normalize_burst_us(durations_us).out]

\* variant: the gap follows every frame
GapDueAlways(i, repeat, gap_us) == gap_us > 0

\* line 233
GapDue(i, repeat, gap_us) == i # repeat - 1 /\ gap_us > 0

\* line 231: the next turn of the for loop, or the return after the last one
NextTurn(r) ==
    IF r.i + 1 < Max(1, r.repeat)
    THEN [r EXCEPT !.pc = "frame", !.i = @ + 1]
    ELSE [r EXCEPT !.pc = "returned", !.i = @ + 1]

\* lines 226-231: the call, up to the first turn of the loop
CallSendRepeatedFrame(durations_us, repeat, gap_us) ==
    /\ rf.pc = "idle"
    /\ LET r == extract_first_frame_us(durations_us, gap_us)
       IN  rf' = [pc |-> IF r.err = "none" THEN "frame" ELSE "raised",
                  durations_us |-> durations_us, repeat |-> repeat, gap_us |-> gap_us,
                  frame |-> r.out, i |-> 0]
    /\ tx' = <<>>
    /\ UNCHANGED not_repeat

\* lines 232-233: send_raw_burst(frame, carrier_khz) returns
RepeatSendFrame ==
    /\ rf.pc = "frame"
    /\ tx' = Append(tx, Sent("frame", rf.frame))
    /\ rf' = IF GapDue(rf.i, rf.repeat, rf.gap_us)
             THEN [rf EXCEPT !.pc = "gap"]
             ELSE NextTurn(rf)
    /\ UNCHANGED not_repeat

\* line 236: send_raw_burst([1, gap_us], carrier_khz) returns
RepeatSendGap ==
    /\ rf.pc = "gap"
    /\ tx' = Append(tx, Sent("gap", <<1, rf.gap_us>>))
    /\ rf' = NextTurn(rf)
    /\ UNCHANGED not_repeat

\* lines 232 and 236: send_raw_burst raises and the exception leaves the call
RepeatSendRaises ==
    /\ rf.pc \in {"frame", "gap"}
    /\ rf' = [rf EXCEPT !.pc = "raised"]
    /\ UNCHANGED <<tx, not_repeat>>

\* the caller goes on
RepeatLeave ==
    /\ rf.pc \in {"returned", "raised"}
    /\ rf' = NoRepeat
    /\ tx' = <<>>
    /\ UNCHANGED not_repeat

RepeatInit == TailIdle /\ EarlyIdle

RepeatNext ==
    \/ \E durations_us \in RepeatBursts, repeat \in Repeats, gap_us \in RepeatGaps :
           CallSendRepeatedFrame(durations_us, repeat, gap_us)
    \/ RepeatSendFrame
    \/ RepeatSendGap
    \/ RepeatSendRaises
    \/ RepeatLeave

SpecRepeat == RepeatInit /\ [][RepeatNext]_vars

\* ------------------------------------------------- properties: send_repeated_frame
\* the transmissions of a whole call: the first frame repeat times, and with
\* gap_us > 0 a gap of gap_us between each two of them
ExpectedTx(durations_us, repeat, gap_us) ==
    LET F == [kind |-> "frame", burst |-> extract_first_frame_us(durations_us, gap_us).out]
        G == [kind |-> "gap", burst |-> <<1, -gap_us>>]
    IN  IF gap_us > 0
        THEN [k \in 1..(2 * repeat - 1) |-> IF k % 2 = 1 THEN F ELSE G]
        ELSE [k \in 1..repeat |-> F]

IsPrefix(a, b) == Len(a) <= Len(b) /\ a = SubSeq(b, 1, Len(a))

\* C21: in a call with repeat >= 1 the transmissions made so far are always
\* the start of: frame, gap, frame, ..., gap, frame, with repeat frames (the
\* gaps only when gap_us > 0), and a call that returns has made all of them.
C21_RepeatFramesWithGapsBetween ==
    (rf.pc # "idle" /\ rf.repeat >= 1) =>
        /\ IsPrefix(tx, ExpectedTx(rf.durations_us, rf.repeat, rf.gap_us))
        /\ rf.pc = "returned" => tx = ExpectedTx(rf.durations_us, rf.repeat, rf.gap_us)

C21_Witness ==
    /\ rf.pc = "returned"
    /\ rf.repeat = 3
    /\ rf.gap_us > 0
    /\ Len(rf.frame) = 4
    /\ Len(tx) = 5
    /\ tx[4].kind = "gap"
    /\ tx[5].kind = "frame"

\* ------------------------------------------------- video controller: interrupts
not_intr == <<early_vars, repeat_vars, ipc_vars, osd_vars, loops_vars>>

Step(op, of, resumed, raised) == [op |-> op, of |-> of, resumed |-> resumed, raised |-> raised]

EndFile(path) == [event |-> "end-file", of |-> path]
FileLoaded(path) == [event |-> "file-loaded", of |-> path]

\* lines 628 and 700: the path mpv reports is the wanted one, or has its basename
PathMatches(cur_path, want) ==
    cur_path # NoPath /\ (cur_path = want \/ cur_path.base = want.base)

\* lines 663-681 of _play_file: loadfile path replace, loop-file, seek, and
\* what mpv does with them: the file it played ends and the new one is
\* loaded; events are the events that wait already
PlayFileIssued(events, path, loop, start) ==
    /\ m_events' = events \o (IF m_file # NoPath THEN <<EndFile(m_file)>> ELSE <<>>)
                          \o <<FileLoaded(path)>>
    /\ m_file' = path
    /\ m_pos' = start
    /\ m_loop' = IF loop THEN "inf" ELSE "no"

\* room for the events of one loadfile
RoomForLoad(events) == Len(events) + 2 <= MaxEvents

\* time passes, and so does the file mpv plays
VideoTick ==
    /\ v_now < MaxClock
    /\ v_now' = v_now + 1
    /\ m_pos' = IF m_file # NoPath THEN m_pos + 1 ELSE m_pos
    /\ v_last' = Step("tick", NoPath, FALSE, FALSE)
    /\ UNCHANGED <<ctl_vars, m_file, m_loop, m_events, resuming, not_intr>>

\* mpv reaches the end of a file that does not loop (--keep-open=no, --idle=yes)
MpvEndOfFile ==
    /\ m_file # NoPath
    /\ m_loop = "no"
    /\ Len(m_events) < MaxEvents
    /\ m_events' = Append(m_events, EndFile(m_file))
    /\ m_file' = NoPath
    /\ m_pos' = 0
    /\ v_last' = Step("eof", m_file, FALSE, FALSE)
    /\ UNCHANGED <<ctl_vars, m_loop, v_now, resuming, not_intr>>

\* lines 732-735; _play_file raises when the file is missing (lines 655-657)
\* or when mpv is not seen to switch (lines 713-728)
PlayMain(exists, switched) ==
    /\ RoomForLoad(m_events)
    /\ main_path' = MainPath
    /\ loop_for_next_file' = TRUE
    /\ IF exists
       THEN PlayFileIssued(m_events, MainPath, TRUE, 0)
       ELSE UNCHANGED mpv_vars
    /\ v_last' = Step("play_main", MainPath, FALSE, ~(exists /\ switched))
    /\ UNCHANGED <<interrupt_active, interrupt_mode, saved_pos, interrupt_start,
                   pending_interrupt_path, v_now, resuming, not_intr>>

\* lines 746-751: the fields interrupt() writes before it calls _play_file
InterruptFields(path, mode, time_pos) ==
    IF main_path = NoPath
    THEN UNCHANGED <<saved_pos, interrupt_mode, loop_for_next_file, pending_interrupt_path>>
    ELSE /\ saved_pos' = time_pos
         /\ interrupt_mode' = mode
         /\ loop_for_next_file' = FALSE
         /\ pending_interrupt_path' = path

\* lines 745-753; get_time is time-pos, or 0.0 when mpv gives no answer
\* (lines 738-743)
Interrupt(path, mode, got_time, exists, switched) ==
    /\ RoomForLoad(m_events)
    /\ InterruptFields(path, mode, IF got_time /\ m_file # NoPath THEN m_pos ELSE 0)
    /\ IF main_path # NoPath /\ exists
       THEN PlayFileIssued(m_events, path, FALSE, 0)
       ELSE UNCHANGED mpv_vars
    /\ v_last' = Step("interrupt", path, FALSE, ~(main_path # NoPath /\ exists /\ switched))
    /\ UNCHANGED <<main_path, interrupt_active, interrupt_start, v_now, resuming, not_intr>>

\* lines 616-637: _on_mpv_event for a file-loaded event; got_path says whether
\* get_property("path") was answered
OnFileLoaded(got_path) ==
    /\ m_events # <<>>
    /\ Head(m_events).event = "file-loaded"
    /\ m_events' = Tail(m_events)
    /\ m_loop' = IF loop_for_next_file THEN "inf" ELSE "no"
    /\ IF /\ pending_interrupt_path # NoPath
          /\ got_path
          /\ PathMatches(m_file, pending_interrupt_path)
       THEN /\ interrupt_active' = TRUE
            /\ interrupt_start' = v_now
            /\ pending_interrupt_path' = NoPath
       ELSE UNCHANGED <<interrupt_active, interrupt_start, pending_interrupt_path>>
    /\ v_last' = Step("file-loaded", Head(m_events).of, FALSE, FALSE)
    /\ UNCHANGED <<main_path, interrupt_mode, saved_pos, loop_for_next_file,
                   m_file, m_pos, v_now, resuming, not_intr>>

\* lines 640-643
ResumeAt ==
    Max(0, saved_pos + (IF interrupt_mode = "skip" THEN v_now - interrupt_start ELSE 0))

\* lines 639-646: _on_mpv_event for an end-file event, up to the wait of
\* _play_file for mpv to switch; a missing main file raises at line 657 and
\* _dispatch_event drops the exception (lines 114-117)
OnEndFile(exists) ==
    /\ m_events # <<>>
    /\ Head(m_events).event = "end-file"
    /\ IF interrupt_active
       THEN /\ resuming < MaxNest
            /\ RoomForLoad(Tail(m_events))
            /\ ResumeAt <= MaxPos
            /\ loop_for_next_file' = TRUE
            /\ IF exists
               THEN /\ PlayFileIssued(Tail(m_events), main_path, TRUE, ResumeAt)
                    /\ resuming' = resuming + 1
               ELSE /\ m_events' = Tail(m_events)
                    /\ UNCHANGED <<m_file, m_pos, m_loop, resuming>>
            /\ v_last' = Step("end-file", Head(m_events).of, exists, ~exists)
       ELSE /\ m_events' = Tail(m_events)
            /\ v_last' = Step("end-file", Head(m_events).of, FALSE, FALSE)
            /\ UNCHANGED <<loop_for_next_file, m_file, m_pos, m_loop, resuming>>
    /\ UNCHANGED <<main_path, interrupt_active, interrupt_mode, saved_pos, interrupt_start,
                   pending_interrupt_path, v_now, not_intr>>

\* lines 646-648: _play_file returns and the handler clears the interrupt
ResumeReturns ==
    /\ resuming > 0
    /\ resuming' = resuming - 1
    /\ interrupt_active' = FALSE
    /\ interrupt_mode' = "none"
    /\ v_last' = Step("resume-returned", main_path, TRUE, FALSE)
    /\ UNCHANGED <<main_path, saved_pos, interrupt_start, loop_for_next_file,
                   pending_interrupt_path, mpv_vars, v_now, not_intr>>

\* line 728: _play_file raises inside the handler; _dispatch_event drops the
\* exception (lines 114-117)
ResumeRaises ==
    /\ resuming > 0
    /\ resuming' = resuming - 1
    /\ v_last' = Step("resume-raised", main_path, TRUE, TRUE)
    /\ UNCHANGED <<ctl_vars, mpv_vars, v_now, not_intr>>

IntrInit == TailIdle /\ EarlyIdle

IntrNext ==
    \/ VideoTick
    \/ MpvEndOfFile
    \/ \E exists \in BOOLEAN, switched \in BOOLEAN : PlayMain(exists, switched)
    \/ \E path \in ClipPaths, mode \in {"return", "skip"},
          got_time \in BOOLEAN, exists \in BOOLEAN, switched \in BOOLEAN :
           Interrupt(path, mode, got_time, exists, switched)
    \/ \E got_path \in BOOLEAN : OnFileLoaded(got_path)
    \/ \E exists \in BOOLEAN : OnEndFile(exists)
    \/ ResumeReturns
    \/ ResumeRaises

SpecIntr == IntrInit /\ [][IntrNext]_vars

\* ------------------------------------------------- properties: interrupts
\* interrupt() leaves interrupt_active as it is
InterruptDoesNotArm ==
    [][v_last'.op = "interrupt" => interrupt_active' = interrupt_active]_vars

\* interrupt_active becomes true only in the handler of a file-loaded event,
\* with mpv on the pending path, and the pending path is cleared with it
ArmedOnlyOnFileLoaded ==
    [][(~interrupt_active /\ interrupt_active') =>
           /\ v_last'.op = "file-loaded"
           /\ pending_interrupt_path # NoPath
           /\ PathMatches(m_file, pending_interrupt_path)
           /\ pending_interrupt_path' = NoPath]_vars

\* the handler of an end-file event of the main video does not reload the
\* main video
MainEndNeverResumes ==
    [][(v_last'.op = "end-file" /\ v_last'.of = main_path) => ~v_last'.resumed]_vars

\* C22: interrupt() never sets interrupt_active; the interrupt is armed only
\* by a file-loaded event on the pending path, which clears the pending
\* path; so the end-file event of the main video never makes the handler
\* resume the main video.
C22_ArmedOnFileLoadedOnly ==
    InterruptDoesNotArm /\ ArmedOnlyOnFileLoaded /\ MainEndNeverResumes

\* the handler of an end-file event that finds the interrupt active, and the
\* main video's file in place, reloads the main video, looping, at saved_pos,
\* plus the time since the arming in mode "skip"
ResumeReloadsMain ==
    [][(v_last'.op = "end-file" /\ interrupt_active /\ ~v_last'.raised) =>
           /\ m_file' = main_path
           /\ m_loop' = "inf"
           /\ m_pos' = Max(0, saved_pos + (IF interrupt_mode = "skip"
                                           THEN v_now - interrupt_start ELSE 0))]_vars

\* when that handler is over, the interrupt is neither active nor has a mode
ResumeClearsInterrupt ==
    [][(\/ v_last'.op \in {"resume-returned", "resume-raised"}
        \/ v_last'.op = "end-file" /\ interrupt_active /\ ~v_last'.resumed) =>
           (~interrupt_active' /\ interrupt_mode' = "none")]_vars

\* C23: an end-file event that arrives while an interrupt is active makes
\* the handler reload the main video in loop mode at saved_pos (mode
\* "return") or saved_pos plus the time since the arming (mode "skip"), and
\* when the handler is over interrupt_active is false and interrupt_mode is
\* cleared.
C23_EndFileResumesMain ==
    ResumeReloadsMain /\ ResumeClearsInterrupt

\* C24: a call of interrupt() that raises leaves saved_pos, interrupt_mode,
\* the loop flag for the next file and the pending interrupt path as they were.
C24_FailedInterruptChangesNothing ==
    [][(v_last'.op = "interrupt" /\ v_last'.raised) =>
           UNCHANGED <<saved_pos, interrupt_mode, loop_for_next_file,
                       pending_interrupt_path>>]_vars

\* ------------------------------------------------- mpv IPC
not_ipc == <<early_vars, repeat_vars, intr_vars, osd_vars, loops_vars>>

\* the lines mpv writes to the socket: the reply to a command, or an event
Reply(id) == [kind |-> "reply", request_id |-> id]
Event == [kind |-> "event", request_id |-> 0]

\* the request ids of the replies among messages
ReplyIds(msgs) == {msgs[k].request_id : k \in {j \in 1..Len(msgs) : msgs[j].kind = "reply"}}

\* lines 132-136: request() sends the command with a fresh request_id
IpcRequest ==
    /\ ipc_req.pc = "idle"
    /\ ipc_issued < MaxReqs
    /\ ipc_issued' = ipc_issued + 1
    /\ ipc_req' = [pc |-> "waiting", id |-> ipc_issued + 1, res |-> "none"]
    /\ ipc_owed' = ipc_owed \cup {ipc_issued + 1}
    /\ UNCHANGED <<ipc_sock, ipc_replied, ipc_lost, not_ipc>>

\* mpv writes the reply to a command
MpvReplies(id) ==
    /\ id \in ipc_owed
    /\ Len(ipc_sock) < MaxSock
    /\ ipc_sock' = Append(ipc_sock, Reply(id))
    /\ ipc_owed' = ipc_owed \ {id}
    /\ ipc_replied' = ipc_replied \cup {id}
    /\ UNCHANGED <<ipc_req, ipc_issued, ipc_lost, not_ipc>>

\* mpv writes an event
MpvEmitsEvent ==
    /\ Len(ipc_sock) < MaxSock
    /\ ipc_sock' = Append(ipc_sock, Event)
    /\ UNCHANGED <<ipc_req, ipc_issued, ipc_owed, ipc_replied, ipc_lost, not_ipc>>

\* lines 89-105: _reader_loop receives the first k waiting messages, hands
\* the events to _dispatch_event and drops every other message (line 112)
ReaderLoopRecv(k) ==
    /\ k \in 1..Len(ipc_sock)
    /\ ipc_sock' = SubSeq(ipc_sock, k + 1, Len(ipc_sock))
    /\ ipc_lost' = ipc_lost \cup ReplyIds(SubSeq(ipc_sock, 1, k))
    /\ UNCHANGED <<ipc_req, ipc_issued, ipc_owed, ipc_replied, not_ipc>>

\* lines 139-158: request() receives the first k waiting messages and
\* returns the one with its request_id, if there is one
RequestRecv(k) ==
    /\ ipc_req.pc = "waiting"
    /\ k \in 1..Len(ipc_sock)
    /\ ipc_sock' = SubSeq(ipc_sock, k + 1, Len(ipc_sock))
    /\ ipc_req' = IF ipc_req.id \in ReplyIds(SubSeq(ipc_sock, 1, k))
                  THEN [ipc_req EXCEPT !.pc = "returned", !.res = "reply"]
                  ELSE ipc_req
    /\ UNCHANGED <<ipc_issued, ipc_owed, ipc_replied, ipc_lost, not_ipc>>

\* lines 139 and 163: the deadline passes with nothing left to receive
RequestTimeout ==
    /\ ipc_req.pc = "waiting"
    /\ ipc_sock = <<>>
    /\ ipc_req' = [ipc_req EXCEPT !.pc = "returned", !.res = "timeout"]
    /\ UNCHANGED <<ipc_sock, ipc_issued, ipc_owed, ipc_replied, ipc_lost, not_ipc>>

\* the caller of request() goes on
RequestLeave ==
    /\ ipc_req.pc = "returned"
    /\ ipc_req' = NoRequest
    /\ UNCHANGED <<ipc_sock, ipc_issued, ipc_owed, ipc_replied, ipc_lost, not_ipc>>

IpcInit == TailIdle /\ EarlyIdle

IpcNext ==
    \/ IpcRequest
    \/ \E id \in 1..MaxReqs : MpvReplies(id)
    \/ MpvEmitsEvent
    \/ \E k \in 1..MaxSock : ReaderLoopRecv(k)
    \/ \E k \in 1..MaxSock : RequestRecv(k)
    \/ RequestTimeout
    \/ RequestLeave

SpecIpc == IpcInit /\ [][IpcNext]_vars

\* ------------------------------------------------- properties: mpv IPC
\* C25: the reader loop receives no reply, and a call of request() whose
\* command mpv has replied to does not return {"error": "timeout"}.
C25_ReplyReachesRequest ==
    /\ ipc_lost = {}
    /\ (ipc_req.pc = "returned" /\ ipc_req.res = "timeout") => ipc_req.id \notin ipc_replied

\* ------------------------------------------------- overlays and OSD messages
not_osd == <<early_vars, repeat_vars, intr_vars, ipc_vars, loops_vars>>

\* lines 771-774 and 892-895: int(get_property("osd-level")), None (-1 here)
\* when mpv gives no answer
PrevLevel(got_level) == IF got_level THEN osd_level ELSE -1

\* lines 856-859 and 933-936: a started threading.Timer with its closure
Scheduled(prev_level, duration) ==
    [state |-> "scheduled", prev_level |-> prev_level, due |-> o_now + duration]

\* lines 846-853 and 922-931: what the Timer's function does to osd-level
RestoredLevel(timer) ==
    IF t_thread # "alive" /\ timer.prev_level # -1 THEN timer.prev_level ELSE osd_level

NoneScheduled == toast_timer.state # "scheduled" /\ msg_timer.state # "scheduled"

\* the level before the first call of a run of calls
NoteBefore == osd_before' = IF NoneScheduled THEN osd_level ELSE osd_before

\* time passes
OsdTick ==
    /\ o_now < MaxOsdClock
    /\ o_now' = o_now + 1
    /\ UNCHANGED <<osd_level, toast_timer, msg_timer, toast_shown, msg_shown, osd_before,
                   not_osd>>

\* lines 756-859; the previous Timer is cancelled (line 834) and replaced
OverlayText(duration, got_level) ==
    /\ osd_level' = 1
    /\ toast_shown' = TRUE
    /\ toast_timer' = Scheduled(PrevLevel(got_level), duration)
    /\ NoteBefore
    /\ UNCHANGED <<msg_timer, msg_shown, o_now, not_osd>>

\* lines 863-936; the previous Timer is cancelled (line 911) and replaced
ShowOsdMessage(duration, got_level) ==
    /\ osd_level' = 1
    /\ msg_shown' = TRUE
    /\ msg_timer' = Scheduled(PrevLevel(got_level), duration)
    /\ NoteBefore
    /\ UNCHANGED <<toast_timer, toast_shown, o_now, not_osd>>

\* lines 838-853: _blank runs when its Timer is due
ToastTimerFires ==
    /\ toast_timer.state = "scheduled"
    /\ o_now >= toast_timer.due
    /\ toast_shown' = FALSE
    /\ osd_level' = RestoredLevel(toast_timer)
    /\ toast_timer' = [toast_timer EXCEPT !.state = "fired"]
    /\ UNCHANGED <<msg_timer, msg_shown, o_now, osd_before, not_osd>>

\* lines 915-931: _remove runs when its Timer is due
MsgTimerFires ==
    /\ msg_timer.state = "scheduled"
    /\ o_now >= msg_timer.due
    /\ msg_shown' = FALSE
    /\ osd_level' = RestoredLevel(msg_timer)
    /\ msg_timer' = [msg_timer EXCEPT !.state = "fired"]
    /\ UNCHANGED <<toast_timer, toast_shown, o_now, osd_before, not_osd>>

OsdInit == TailIdle /\ EarlyIdle

OsdNext ==
    \/ OsdTick
    \/ \E duration \in 1..MaxDur, got_level \in BOOLEAN : OverlayText(duration, got_level)
    \/ \E duration \in 1..MaxDur, got_level \in BOOLEAN : ShowOsdMessage(duration, got_level)
    \/ ToastTimerFires
    \/ MsgTimerFires

SpecOsd == OsdInit /\ [][OsdNext]_vars

\* ------------------------------------------------- properties: overlays
\* C26: with no OSD timer running and no blank or remove Timer left to fire,
\* osd-level has the value it had before the first of the calls.
C26_OsdLevelRestored ==
    (t_thread # "alive" /\ NoneScheduled) => osd_level = osd_before

\* ------------------------------------------------- OSD timer loops
\* pause_osd_timer is not called in this specification, so _osd_timer_paused
\* stays clear and the loops take the else branch of line 471.
not_loops == <<early_vars, repeat_vars, intr_vars, ipc_vars, osd_rest>>

\* line 472: int(max(0, round(self._osd_timer_end - time.monotonic())))
LoopLeft == Max(0, lp_end - lp_now)

\* t.is_alive()
Alive(i) == i # 0 /\ lp_pc[i] \notin {"none", "done"}

\* t.join(timeout=0.5) is over (lines 500-501, 584-588): there is no live
\* thread, or the 0.5 seconds run out while the loop is in _ovl_update
JoinOver == IF Alive(lp_thread) THEN lp_pc[lp_thread] \in {"sent", "leave"} ELSE TRUE

\* time.monotonic() advances
LoopTick ==
    /\ lp_now < MaxLoopTime
    /\ lp_now' = lp_now + 1
    /\ lp_drawer' = 0
    /\ UNCHANGED <<lp_pc, lp_left, lp_last, lp_wake, lp_started, lp_thread, lp_stop, lp_end,
                   lp_call, lp_overlay, lp_prev_level, lp_retired, osd_level, not_loops>>

\* lines 468-477: the while test and, with the stop event clear, one draw
LoopTurn(i) ==
    /\ lp_pc[i] = "check"
    /\ IF lp_stop
         THEN /\ lp_pc' = [lp_pc EXCEPT ![i] = "leave"]
              /\ lp_drawer' = 0
              /\ UNCHANGED <<lp_left, lp_last, lp_overlay>>
         ELSE /\ lp_pc' = [lp_pc EXCEPT ![i] = "sent"]
              /\ lp_left' = [lp_left EXCEPT ![i] = LoopLeft]
              /\ IF LoopLeft # lp_last[i]
                   THEN /\ lp_overlay' = LoopLeft
                        /\ lp_last' = [lp_last EXCEPT ![i] = LoopLeft]
                        /\ lp_drawer' = i
                   ELSE /\ lp_drawer' = 0
                        /\ UNCHANGED <<lp_last, lp_overlay>>
    /\ UNCHANGED <<lp_wake, lp_started, lp_thread, lp_stop, lp_end, lp_now, lp_call,
                   lp_prev_level, lp_retired, osd_level, not_loops>>

\* lines 479-481: break at zero, else wait for the stop event or a tick
LoopAfterDraw(i) ==
    /\ lp_pc[i] = "sent"
    /\ lp_pc' = [lp_pc EXCEPT ![i] = IF lp_left[i] <= 0 THEN "leave" ELSE "wait"]
    /\ lp_wake' = [lp_wake EXCEPT ![i] = lp_now + 1]
    /\ lp_drawer' = 0
    /\ UNCHANGED <<lp_left, lp_last, lp_started, lp_thread, lp_stop, lp_end, lp_now, lp_call,
                   lp_overlay, lp_prev_level, lp_retired, osd_level, not_loops>>

\* line 481: self._osd_timer_stop.wait(TICK_S) returns
LoopWake(i) ==
    /\ lp_pc[i] = "wait"
    /\ lp_stop \/ lp_now >= lp_wake[i]
    /\ lp_pc' = [lp_pc EXCEPT ![i] = "check"]
    /\ lp_drawer' = 0
    /\ UNCHANGED <<lp_left, lp_last, lp_wake, lp_started, lp_thread, lp_stop, lp_end, lp_now,
                   lp_call, lp_overlay, lp_prev_level, lp_retired, osd_level, not_loops>>

\* line 484: the loop blanks the overlay and the thread ends
LoopLeave(i) ==
    /\ lp_pc[i] = "leave"
    /\ lp_pc' = [lp_pc EXCEPT ![i] = "done"]
    /\ lp_overlay' = -1
    /\ lp_drawer' = 0
    /\ UNCHANGED <<lp_left, lp_last, lp_wake, lp_started, lp_thread, lp_stop, lp_end, lp_now,
                   lp_call, lp_prev_level, lp_retired, osd_level, not_loops>>

\* lines 494-501: start_osd_timer sets the stop event and joins
StartBegin(seconds) ==
    /\ lp_call.pc = "idle"
    /\ lp_started < MaxLoops
    /\ lp_stop' = TRUE
    /\ lp_call' = [pc |-> "start_join", seconds |-> seconds]
    /\ lp_drawer' = 0
    /\ UNCHANGED <<lp_pc, lp_left, lp_last, lp_wake, lp_started, lp_thread, lp_end, lp_now,
                   lp_overlay, lp_prev_level, lp_retired, osd_level, not_loops>>

\* lines 501-553: the join is over; blank, remember osd-level, set it to 1
StartJoinReturns(got_level) ==
    /\ lp_call.pc = "start_join"
    /\ JoinOver
    /\ lp_thread' = 0
    /\ lp_overlay' = -1
    /\ lp_prev_level' = IF got_level THEN osd_level ELSE -1
    /\ osd_level' = 1
    /\ lp_call' = [lp_call EXCEPT !.pc = "start_arm"]
    /\ lp_drawer' = 0
    /\ UNCHANGED <<lp_pc, lp_left, lp_last, lp_wake, lp_started, lp_stop, lp_end, lp_now,
                   lp_retired, not_loops>>

\* lines 556-559: clear the stop event, set the deadline, start the new loop
StartArm ==
    /\ lp_call.pc = "start_arm"
    /\ lp_stop' = FALSE
    /\ lp_end' = lp_now + Max(0, lp_call.seconds)
    /\ lp_started' = lp_started + 1
    /\ lp_thread' = lp_started + 1
    /\ lp_pc' = [lp_pc EXCEPT ![lp_started + 1] = "check"]
    /\ lp_call' = NoTimerCall
    /\ lp_retired' = 1..lp_started
    /\ lp_drawer' = 0
    /\ UNCHANGED <<lp_left, lp_last, lp_wake, lp_now, lp_overlay, lp_prev_level, osd_level,
                   not_loops>>

\* lines 580-588: stop_osd_timer sets the stop event and joins
StopBegin ==
    /\ lp_call.pc = "idle"
    /\ lp_stop' = TRUE
    /\ lp_call' = [pc |-> "stop_join", seconds |-> 0]
    /\ lp_drawer' = 0
    /\ UNCHANGED <<lp_pc, lp_left, lp_last, lp_wake, lp_started, lp_thread, lp_end, lp_now,
                   lp_overlay, lp_prev_level, lp_retired, osd_level, not_loops>>

\* lines 585-610: the join is over; blank, restore osd-level
StopJoinReturns ==
    /\ lp_call.pc = "stop_join"
    /\ JoinOver
    /\ lp_thread' = 0
    /\ lp_overlay' = -1
    /\ osd_level' = IF lp_prev_level # -1 THEN lp_prev_level ELSE osd_level
    /\ lp_prev_level' = -1
    /\ lp_call' = NoTimerCall
    /\ lp_retired' = 1..lp_started
    /\ lp_drawer' = 0
    /\ UNCHANGED <<lp_pc, lp_left, lp_last, lp_wake, lp_started, lp_stop, lp_end, lp_now,
                   not_loops>>

LoopsInit == TailIdle /\ EarlyIdle

LoopsNext ==
    \/ LoopTick
    \/ \E i \in 1..MaxLoops : LoopTurn(i)
    \/ \E i \in 1..MaxLoops : LoopAfterDraw(i)
    \/ \E i \in 1..MaxLoops : LoopWake(i)
    \/ \E i \in 1..MaxLoops : LoopLeave(i)
    \/ \E seconds \in 1..MaxLoopSecs : StartBegin(seconds)
    \/ \E got_level \in BOOLEAN : StartJoinReturns(got_level)
    \/ StartArm
    \/ StopBegin
    \/ StopJoinReturns

SpecLoops == LoopsInit /\ [][LoopsNext]_vars

\* ------------------------------------------------- properties: OSD timer loops
\* C27: once start_osd_timer or stop_osd_timer has returned, no timer loop
\* started before that call draws another countdown value.
C27_RetiredLoopsDrawNothing == lp_drawer \notin lp_retired

====
